---- MODULE Spec2Model ----
(***************************************************************************)
(* Verification model of the balance-scanning worker pool:                 *)
(*   src/src/wallet_checker.py   SharedCounter, worker_process,            *)
(*                               WalletChecker.start                       *)
(*   src/src/ethereum_service.py EthereumService.check_wallet,             *)
(*                               EthereumService.check_wallets_batch       *)
(*                               (the second definition, which is the one  *)
(*                               the class ends up with),                  *)
(*                               generate_random_mnemonic,                 *)
(*                               generate_random_mnemonics_gpu             *)
(*   src/src/telegram_service.py TelegramService.send_message              *)
(*                                                                         *)
(* Spec        : the Coordinator (WalletChecker.start) and its worker      *)
(*               processes on a CPU device, sharing one SharedCounter.     *)
(* FairSpec    : Spec with the progress of the interrupt handler.          *)
(* SpecBatch   : check_wallet, check_wallets_batch and the generators      *)
(*               applied to arbitrary inputs and endpoint behaviours.      *)
(* SpecCounter : the SharedCounter late in a run, near the largest value   *)
(*               of its C int.                                             *)
(***************************************************************************)
EXTENDS Integers, Sequences, FiniteSets, TLC

(***************************************************************************)
(* Bounds of the model.                                                    *)
(***************************************************************************)
NumWorkers == 2      \* largest worker_count explored
BatchSize == 1       \* candidates per batch (BATCH_SIZE of the CPU path)
MaxBatches == 2      \* batches a worker scans when several workers run
LongRun == 6         \* batches the worker scans when it runs alone
MaxWei == 1          \* largest balance, in smallest units, on the chain
MaxBatchLen == 2     \* longest input list given to check_wallets_batch
AttemptsBound == 2   \* get_balance outcomes offered to one check_wallet
MaxKeys == 3         \* random keys the entropy source hands to one call
MaxGen == 2          \* largest batch_size asked of the generator
MaxIncrements == 4   \* increments of one worker followed late in a run
MaxHexLen == 2       \* longest of the short hex-encoded balances converted
MaxWallets == 2      \* wallets of one process_wallets call
BufBatch == 2        \* BATCH_SIZE of the worker whose buffer is followed
MaxSerial == 10      \* candidates that worker generates
MaxPrice == 2        \* largest price the exchange quotes
TickSeconds == 60    \* seconds between two instants of the price clock
MaxTicks == 2        \* instants of the price clock after the first
UnitsPerSecond == 2  \* clock units of the notifier per second
MaxGap == 3          \* longest pause between two send_message calls, in units
MaxClock == 14       \* last instant at which a send_message call arrives
MaxParts == 2        \* full parts of the longest message sent
MaxRounds == 8       \* iterations of the main loop of run()
NumStarted == 5      \* config.num_workers of the GPU WalletManager
GpuBatchSize == 3    \* GPUConfig.batch_size: mnemonics of one generated batch
GpuBatches == 3      \* batches one GPU worker generates
MaxGpuHalfGiB == 18  \* GPU memory sizes tried, in units of 2^29 bytes
MaxCpus == 9         \* CPU counts tried

(***************************************************************************)
(* Program constants.                                                      *)
(***************************************************************************)
max_retries == 5     \* initialisation attempts of a worker
IntMax == 2147483647 \* largest value of the counter's C int ('i')
FloatBits == 53      \* significand of the float a balance is converted to
EtherDecimals == 18  \* from_wei(..., 'ether') divides by 10^18
web3_max_retries == 3 \* max_retries of _initialize_web3
retry_delay == 5     \* its first retry_delay, in seconds
LimbHex == 6         \* hex digits per digit of the long division
ttl == 120           \* TTLCache(maxsize=1000, ttl=120), in seconds
_min_interval == 1   \* TelegramNotifier._min_interval, in seconds
max_length == 4096   \* Telegram's limit, services/telegram_service.py

None == "None"
NoHolder == -1                  \* a lock that nobody holds
Addr == {"a1", "a2"}            \* strings for which Web3.is_address holds
NotAddr == {"bad"}              \* strings for which it does not
Wei == 0..MaxWei
Workers == 0..(NumWorkers - 1)

VARIABLES
    worker_count,    \* WalletChecker.worker_count
    chain,           \* the endpoint's ledger: balance in wei of every address
    cpc,             \* position of WalletChecker.start
    spawned,         \* number of processes appended to `processes`
    stop_idx,        \* position of the terminate/join loop
    overall_total,   \* total_checked of start(): last value read from the counter
    counter,         \* SharedCounter._value
    lock,            \* holder of SharedCounter._lock
    vlock,           \* holder of the lock that guards _value's accessors
    wpc,             \* position of each worker_process
    attempt,         \* attempt of the initialisation loop
    current_batch,   \* current_batch of each worker
    local_checked,   \* local_checked of each worker
    tmp,             \* value read by `_value.value += amount` before it writes
    written,         \* history: sum of the amounts each worker has added
    fails,           \* history: consecutive batches whose batch request failed
                     \* with no sleep of the worker in between
    notified,        \* match messages handed to TelegramService.send_message
    wlog,            \* error line each worker printed last in its iteration
    processes,       \* `processes` of start(): worker_id of each process
    node_ready,      \* history: the wait saw the node connected and synced
    start_notice,    \* how the start notification's send_message ended
    call             \* SpecBatch: the last call and what it returned;
                     \* SpecCounter: the value the counter started from

vars == <<worker_count, chain, cpc, spawned, stop_idx, overall_total, counter,
          lock, vlock, wpc, attempt, current_batch, local_checked, tmp,
          written, fails, notified, wlog, processes, node_ready,
          start_notice, call>>

startVars == <<processes, node_ready, start_notice>>
coordVars == <<cpc, spawned, stop_idx, overall_total, startVars>>
counterVars == <<counter, lock, vlock, tmp, written>>
scanVars == <<current_batch, local_checked, fails, notified, wlog>>
fixedVars == <<worker_count, chain, call>>

(***************************************************************************)
(* Helpers.                                                                *)
(***************************************************************************)
RECURSIVE SumOver(_, _)
SumOver(f, S) ==
    IF S = {} THEN 0
    ELSE LET x == CHOOSE y \in S : TRUE IN f[x] + SumOver(f, S \ {x})

Min(a, b) == IF a < b THEN a ELSE b

RECURSIVE Pow2(_)
Pow2(k) == IF k = 0 THEN 1 ELSE 2 * Pow2(k - 1)

RECURSIVE BitLength(_)
BitLength(n) == IF n = 0 THEN 0 ELSE 1 + BitLength(n \div 2)

\* Python's list.index: position of the first occurrence.
IndexOf(s, x) == CHOOSE i \in 1..Len(s) : s[i] = x /\ \A j \in 1..(i - 1) : s[j] # x

\* Web3.is_address
is_address(s) == s \in Addr

\* Value('i'): a C int; the store of value + amount wraps around when the
\* sum is beyond IntMax.
CInt(old, amount) ==
    IF old > IntMax - amount
    THEN (((old - IntMax) + (amount - 1)) - IntMax) - 1
    ELSE old + amount

\* float(from_wei(wei, 'ether')): the amount, kept in units of wei, rounded
\* (half to even) to the FloatBits significant bits a float holds.
from_wei(wei) ==
    LET len == BitLength(wei) IN
    IF len <= FloatBits THEN wei
    ELSE LET q == Pow2(len - FloatBits)
             lo == (wei \div q) * q
             r == wei - lo
         IN  IF 2 * r < q THEN lo
             ELSE IF 2 * r > q THEN lo + q
             ELSE IF (wei \div q) % 2 = 0 THEN lo ELSE lo + q


(***************************************************************************)
(* balance_eth = float(from_wei(int(result, 16), 'ether')) (lines 268-270  *)
(* and 163-166), computed on the digits.  An integer is the sequence of    *)
(* its hexadecimal digits, most significant first.  from_wei gives the     *)
(* exact decimal W / 10^18 and float() rounds it, half to even, to a       *)
(* significand of FloatBits bits: the float is mantissa * 2^(exponent -    *)
(* FloatBits + 1), and inexact tells that the rounding discarded something.*)
(***************************************************************************)
HexChars == <<"0", "1", "2", "3", "4", "5", "6", "7",
              "8", "9", "a", "b", "c", "d", "e", "f">>

\* int(s, 16)
int16(s) == [k \in 1..Len(s) |->
               (CHOOSE i \in 1..Len(HexChars) : HexChars[i] = s[k]) - 1]

\* The hex digits hs as digits of base 16^LimbHex (limbs), most significant
\* first.
Limbs(hs) ==
    LET pad == (LimbHex - (Len(hs) % LimbHex)) % LimbHex
        padded == [k \in 1..pad |-> 0] \o hs
    IN  [j \in 1..(Len(padded) \div LimbHex) |->
            SumOver([i \in 1..LimbHex |->
                        padded[(j - 1) * LimbHex + i] * Pow2(4 * (LimbHex - i))],
                    1..LimbHex)]

\* Long division of the limbs ds by a small divisor d, with remainder r
\* carried in and quotient limbs q found so far.
RECURSIVE DivStep(_, _, _, _)
DivStep(ds, d, r, q) ==
    IF Len(q) = Len(ds) THEN [q |-> q, r |-> r]
    ELSE LET cur == r * Pow2(4 * LimbHex) + ds[Len(q) + 1]
         IN  DivStep(ds, d, cur % d, Append(q, cur \div d))

\* ds divided n times by 5^3; sticky: some division left a remainder.
RECURSIVE DivPow5(_, _)
DivPow5(ds, n) ==
    IF n = 0 THEN [q |-> ds, sticky |-> FALSE]
    ELSE LET prev == DivPow5(ds, n - 1)
             step == DivStep(prev.q, 5 * 5 * 5, 0, <<>>)
         IN  [q |-> step.q, sticky |-> prev.sticky \/ step.r # 0]

\* The binary digits of the limbs ds, most significant first.
Bits(ds) == [i \in 1..(4 * LimbHex * Len(ds)) |->
               (ds[((i - 1) \div (4 * LimbHex)) + 1]
                  \div Pow2(4 * LimbHex - 1 - ((i - 1) % (4 * LimbHex)))) % 2]

\* Zero digits appended to W before the division, enough for the quotient
\* to have more than FloatBits + 1 bits (10^18 is below 16^18).
GuardDigits == EtherDecimals + ((FloatBits + 5) \div 4)

\* m + 1 for a significand m that is not all ones.
Successor(m) ==
    LET j == CHOOSE i \in 1..Len(m) : m[i] = 0 /\ \A k \in (i + 1)..Len(m) : m[k] = 1
    IN  [i \in 1..Len(m) |-> IF i < j THEN m[i] ELSE IF i = j THEN 1 ELSE 0]

balance_eth(result) ==
    LET W == int16(result)
        scaled == Limbs(W \o [k \in 1..GuardDigits |-> 0])
        div == DivPow5(scaled, EtherDecimals \div 3)
        bits == Bits(div.q)
    IN  IF \A k \in 1..Len(W) : W[k] = 0
        THEN [zero |-> TRUE, inexact |-> FALSE]
        ELSE LET first == CHOOSE i \in 1..Len(bits) :
                              bits[i] = 1 /\ \A k \in 1..(i - 1) : bits[k] = 0
                 m == SubSeq(bits, first, first + FloatBits - 1)
                 round == bits[first + FloatBits]
                 sticky == div.sticky \/
                           \E i \in (first + FloatBits + 1)..Len(bits) : bits[i] = 1
                 up == round = 1 /\ (sticky \/ m[FloatBits] = 1)
                 carry == up /\ \A i \in 1..FloatBits : m[i] = 1
                 \* position of the leading bit of W * 16^GuardDigits / 5^18,
                 \* less the 4 * GuardDigits and 18 binary places divided out
                 e == (Len(bits) - first) - 4 * GuardDigits - EtherDecimals
             IN  [zero |-> FALSE,
                  mantissa |-> IF carry THEN [i \in 1..FloatBits |->
                                                IF i = 1 THEN 1 ELSE 0]
                               ELSE IF up THEN Successor(m) ELSE m,
                  exponent |-> IF carry THEN e + 1 ELSE e,
                  inexact |-> round = 1 \/ sticky]

(***************************************************************************)
(* EthereumService.check_wallet.  outcomes[k] is what the k-th call of     *)
(* get_balance for this address does: "ok" (returns the ledger's balance), *)
(* "transient" (timeout, connection reset, 5xx) or "permanent" (4xx).      *)
(* attempts is the number of get_balance calls made.                       *)
(***************************************************************************)
check_wallet(address, outcomes, ledger) ==
    IF ~is_address(address)
    THEN [result |-> <<None, 0>>, attempts |-> 0]
    ELSE IF outcomes[1] = "ok"
         THEN [result |-> <<address, IF ledger[address] > 0
                                     THEN from_wei(ledger[address]) ELSE 0>>,
               attempts |-> 1]
         ELSE [result |-> <<address, 0>>, attempts |-> 1]

(***************************************************************************)
(* The batch response.  kind "raise": make_request raised; "nonlist": it   *)
(* returned something that is not a list (an error object); "list": a list *)
(* of entries.  Entry j of a faithful endpoint answers request id j.id     *)
(* with tag "result" (the balance of the address of that request),         *)
(* "error" (no 'result' member) or "bad" (a 'result' that is not a hex     *)
(* string); entries may be missing and in any order.                       *)
(***************************************************************************)
Entries(valid_addresses, ledger) ==
    {[id |-> j - 1, tag |-> t,
      wei |-> IF t = "result" THEN ledger[valid_addresses[j]] ELSE 0] :
        j \in 1..Len(valid_addresses), t \in {"result", "error", "bad"}}

Responses(valid_addresses, ledger) ==
    LET E == Entries(valid_addresses, ledger)
        L == {s \in UNION {[1..m -> E] : m \in 0..Len(valid_addresses)} :
                \A i, j \in 1..Len(s) : i # j => s[i].id # s[j].id}
    IN  {[kind |-> "raise", entries |-> <<>>],
         [kind |-> "nonlist", entries |-> <<>>]}
        \cup {[kind |-> "list", entries |-> s] : s \in L}

\* The response of an endpoint that answers every request, in request order.
InOrder(valid_addresses, ledger) ==
    [kind |-> "list",
     entries |-> [j \in 1..Len(valid_addresses) |->
                    [id |-> j - 1, tag |-> "result",
                     wei |-> ledger[valid_addresses[j]]]]]

\* Lines 266-273: the loop over zip(response, valid_addresses).
RECURSIVE ProcessResponse(_, _, _, _)
ProcessResponse(results, entries, valid_addresses, k) ==
    IF k > Min(Len(entries), Len(valid_addresses))
    THEN [results |-> results, raised |-> FALSE]
    ELSE LET bal_resp == entries[k]
             address == valid_addresses[k]
         IN  IF bal_resp.tag = "bad"
             THEN [results |-> results, raised |-> TRUE]
             ELSE IF bal_resp.tag = "result" /\ bal_resp.wei > 0
                  THEN LET idx == IndexOf(valid_addresses, address)
                       IN  ProcessResponse(
                             [results EXCEPT ![idx] = <<address, from_wei(bal_resp.wei)>>],
                             entries, valid_addresses, k + 1)
                  ELSE ProcessResponse(results, entries, valid_addresses, k + 1)

\* Lines 278-285: the individual lookups of the except branch; `failing` is
\* the set of positions of valid_addresses whose get_balance raises.
RECURSIVE FallbackLookups(_, _, _, _, _)
FallbackLookups(results, valid_addresses, failing, ledger, i) ==
    IF i > Len(valid_addresses) THEN results
    ELSE LET address == valid_addresses[i]
         IN  IF i \notin failing /\ ledger[address] > 0
             THEN FallbackLookups(
                    [results EXCEPT ![i] = <<address, from_wei(ledger[address])>>],
                    valid_addresses, failing, ledger, i + 1)
             ELSE FallbackLookups(results, valid_addresses, failing, ledger, i + 1)

(***************************************************************************)
(* EthereumService.check_wallets_batch (lines 225-291).  probe is the      *)
(* outcome of the get_balance calls of the first pass (check_wallet on     *)
(* every input).  Returns the result list, the addresses looked up one by  *)
(* one in the except branch, and the numbers of wire requests.             *)
(***************************************************************************)
check_wallets_batch(mnemonics, probe, response, failing, ledger) ==
    LET n == Len(mnemonics)
        wallet_results == [i \in 1..n |->
                             check_wallet(mnemonics[i], <<probe>>, ledger)]
        results0 == [i \in 1..n |->
                       IF wallet_results[i].result[1] # None
                       THEN <<wallet_results[i].result[1], 0>>
                       ELSE <<None, 0>>]
        valid_addresses == SelectSeq([i \in 1..n |-> wallet_results[i].result[1]],
                                     LAMBDA a : a # None)
        probes == SumOver([i \in 1..n |-> wallet_results[i].attempts], 1..n)
    IN  IF valid_addresses = <<>>
        THEN [results |-> results0, fallback |-> <<>>,
              single_requests |-> probes, batch_requests |-> 0]
        ELSE LET pr == IF response.kind = "list"
                       THEN ProcessResponse(results0, response.entries,
                                            valid_addresses, 1)
                       ELSE [results |-> results0,
                             raised |-> response.kind = "raise"]
             IN  IF pr.raised
                 THEN [results |-> FallbackLookups(pr.results, valid_addresses,
                                                   failing, ledger, 1),
                       fallback |-> valid_addresses,
                       single_requests |-> probes + Len(valid_addresses),
                       batch_requests |-> 1]
                 ELSE [results |-> pr.results, fallback |-> <<>>,
                       single_requests |-> probes, batch_requests |-> 1]

\* Lines 131-141 of worker_process: position of the first result that has an
\* address and a positive balance, 0 when there is none.
FirstMatch(batch, results) ==
    LET hits == {i \in 1..Min(Len(batch), Len(results)) :
                    results[i][1] # None /\ results[i][2] > 0}
    IN  IF hits = {} THEN 0 ELSE CHOOSE i \in hits : \A j \in hits : i <= j


(***************************************************************************)
(* Candidate generation.  The entropy source is the sequence `keys` of the *)
(* 32-byte strings it hands out; a key is named by the address that        *)
(* Account.from_key derives from it, or is BadKey when from_key rejects it *)
(* (zero, or not below the order of the curve).  Every function returns    *)
(* what it returns together with the number of keys it converted           *)
(* (attempts) and of wire requests it issued (requests).                   *)
(***************************************************************************)
BadKey == "badkey"
Keys == Addr \cup {BadKey}
Devices == {"cuda", "cpu"}

\* A generator that asks the endpoint about the address it derived.
generate_random_mnemonic_Lookup(key) ==
    [address |-> IF key = BadKey THEN None ELSE key, attempts |-> 1,
     requests |-> IF key = BadKey THEN 0 ELSE 1]

\* Lines 103-111.
generate_random_mnemonic(key) ==
    [address |-> IF key = BadKey THEN None ELSE key, attempts |-> 1, requests |-> 0]

\* Lines 145-148: the loop of the CPU path, from key number k on; returned
\* is FALSE when the loop is still running at the end of `keys`.
RECURSIVE CpuLoop(_, _, _, _)
CpuLoop(addresses, keys, k, batch_size) ==
    IF Len(addresses) >= batch_size \/ k > Len(keys)
    THEN [addresses |-> addresses, attempts |-> k - 1,
          requests |-> SumOver([j \in 1..(k - 1) |->
                                  generate_random_mnemonic(keys[j]).requests],
                               1..(k - 1)),
          returned |-> Len(addresses) >= batch_size]
    ELSE LET address == generate_random_mnemonic(keys[k]).address
         IN  CpuLoop(IF address # None THEN Append(addresses, address)
                     ELSE addresses,
                     keys, k + 1, batch_size)

\* Lines 113-154.  On cuda the rows of random_tensor are the first
\* batch_size keys; fault: building the tensor raises.
generate_random_mnemonics_gpu(device, batch_size, keys, fault) ==
    IF device = "cuda"
    THEN IF fault
         THEN [addresses |-> <<>>, attempts |-> 0, requests |-> 0,
               returned |-> TRUE]
         ELSE LET random_tensor == SubSeq(keys, 1, batch_size)
                  addresses == SelectSeq(random_tensor, LAMBDA key : key # BadKey)
              IN  [addresses |-> SubSeq(addresses, 1, Min(Len(addresses), batch_size)),
                   attempts |-> batch_size, requests |-> 0, returned |-> TRUE]
    ELSE CpuLoop(<<>>, keys, 1, batch_size)

(***************************************************************************)
(* TelegramService.send_message (telegram_service.py, lines 36-63).        *)
(* enabled is TelegramService.enabled; post is what requests.post does:    *)
(* "ok" (a response with ok), "not_ok" (any other response) or "exception" *)
(* (it raises).  The call ends by returning `value`, or by raising;        *)
(* logged: it wrote a line to the log before it returned.                  *)
(***************************************************************************)
Post == {"ok", "not_ok", "exception"}

send_message(enabled, post) ==
    IF ~enabled THEN [raised |-> FALSE, value |-> FALSE, logged |-> TRUE]
    ELSE IF post = "exception"
         THEN [raised |-> FALSE, value |-> FALSE, logged |-> TRUE]
         ELSE [raised |-> FALSE, value |-> (post = "ok"), logged |-> FALSE]

(***************************************************************************)
(* The Coordinator and its workers.                                        *)
(***************************************************************************)
Stopped == {"init_failed", "matched", "interrupted", "killed"}

\* multiprocessing.Process.is_alive
is_alive(w) == wpc[w] \notin (Stopped \cup {"unstarted"})

\* Where a worker_process is in its life: before its initialisation has
\* succeeded (lines 58-76), in the scan loop (lines 101-171), or ended.  The
\* function has no state between the arrival of a signal and its end:
\* KeyboardInterrupt leaves the loop by `break`, and SIGTERM has no handler.
Phase(w) ==
    IF wpc[w] = "unstarted" THEN "NotSpawned"
    ELSE IF wpc[w] = "init" THEN "Starting"
    ELSE IF wpc[w] \in Stopped THEN "Stopped"
    ELSE "Running"

\* The depth to which a run is explored.
Cap == IF worker_count = 1 THEN LongRun ELSE MaxBatches

\* The state after WalletChecker.__init__: nothing spawned, counter at 0.
Constructed ==
    /\ cpc = "wait_geth"
    /\ spawned = 0
    /\ stop_idx = 0
    /\ overall_total = 0
    /\ counter = 0
    /\ lock = NoHolder
    /\ vlock = NoHolder
    /\ wpc = [w \in Workers |-> "unstarted"]
    /\ attempt = [w \in Workers |-> 0]
    /\ current_batch = [w \in Workers |-> <<>>]
    /\ local_checked = [w \in Workers |-> 0]
    /\ tmp = [w \in Workers |-> 0]
    /\ written = [w \in Workers |-> 0]
    /\ fails = [w \in Workers |-> 0]
    /\ notified = {}
    /\ wlog = [w \in Workers |-> "none"]
    /\ processes = <<>>
    /\ node_ready = FALSE
    /\ start_notice = "none"

\* One funded address ("a2") among the addresses the workers can draw.
Init ==
    /\ worker_count \in 1..NumWorkers
    /\ chain \in {c \in [Addr -> Wei] : c["a1"] = 0 /\ c["a2"] > 0}
    /\ call = [op |-> "idle"]
    /\ Constructed

(************************ WalletChecker.start ******************************)

\* Lines 231-260: the node was seen connected and synced within the wait;
\* the start notification is handed to send_message, whose result start()
\* does not look at.
GethReady ==
    /\ cpc = "wait_geth"
    /\ cpc' = "spawn"
    /\ node_ready' = TRUE
    /\ \E enabled \in BOOLEAN, post \in Post :
          start_notice' = IF send_message(enabled, post).value
                          THEN "delivered" ELSE "failed"
    /\ UNCHANGED <<spawned, stop_idx, overall_total, wpc, attempt, processes>>
    /\ UNCHANGED <<counterVars, scanVars, fixedVars>>

\* Lines 246-252: timeout of the wait, or the connection raised: start returns.
GethUnavailable ==
    /\ cpc = "wait_geth"
    /\ cpc' = "aborted"
    /\ UNCHANGED <<spawned, stop_idx, overall_total, wpc, attempt>>
    /\ UNCHANGED <<startVars, counterVars, scanVars, fixedVars>>

\* Line 245: KeyboardInterrupt during the sleep of the wait; `except
\* Exception` (line 250) does not catch it and it leaves start().
InterruptWait ==
    /\ cpc = "wait_geth"
    /\ cpc' = "raised"
    /\ UNCHANGED <<spawned, stop_idx, overall_total, wpc, attempt>>
    /\ UNCHANGED <<startVars, counterVars, scanVars, fixedVars>>

\* A loop that hands the same worker id to every process.
Spawn_SameId ==
    /\ cpc = "spawn"
    /\ spawned < worker_count
    /\ wpc' = [wpc EXCEPT ![spawned] = "init"]
    /\ processes' = Append(processes, 0)
    /\ spawned' = spawned + 1
    /\ cpc' = IF spawned + 1 = worker_count THEN "monitor" ELSE "spawn"
    /\ UNCHANGED <<stop_idx, overall_total, attempt, node_ready, start_notice>>
    /\ UNCHANGED <<counterVars, scanVars, fixedVars>>

\* Lines 268-277: one turn of the loop that creates and starts the processes.
Spawn ==
    /\ cpc = "spawn"
    /\ spawned < worker_count
    /\ wpc' = [wpc EXCEPT ![spawned] = "init"]
    /\ processes' = Append(processes, spawned)
    /\ spawned' = spawned + 1
    /\ cpc' = IF spawned + 1 = worker_count THEN "monitor" ELSE "spawn"
    /\ UNCHANGED <<stop_idx, overall_total, attempt, node_ready, start_notice>>
    /\ UNCHANGED <<counterVars, scanVars, fixedVars>>

\* How start() has ended: by `return` or by falling off its end (lines 248,
\* 252, 295, 320), which is how it ends after a completed run as well, or by
\* an exception that leaves it.  start() has no call of sys.exit.
start_exit ==
    IF cpc \in {"aborted", "returned", "finished"} THEN "return"
    ELSE IF cpc = "raised" THEN "raise"
    ELSE "running"

\* Line 286: the number of active workers that the summary shows.
active_workers == Cardinality({w \in Workers : w < spawned /\ is_alive(w)})

\* A test that ends the loop as soon as one process is no longer alive.
MonitorTest_All ==
    /\ cpc = "monitor"
    /\ cpc' = IF \A w \in Workers : w < spawned => is_alive(w)
              THEN "monitor_sleep" ELSE "returned"
    /\ UNCHANGED <<spawned, stop_idx, overall_total, wpc, attempt>>
    /\ UNCHANGED <<startVars, counterVars, scanVars, fixedVars>>

\* Line 281: the test of the monitoring loop; start returns when it fails.
MonitorTest ==
    /\ cpc = "monitor"
    /\ cpc' = IF \E w \in Workers : is_alive(w) THEN "monitor_sleep" ELSE "returned"
    /\ UNCHANGED <<spawned, stop_idx, overall_total, wpc, attempt>>
    /\ UNCHANGED <<startVars, counterVars, scanVars, fixedVars>>

\* Lines 282-295: after the sleep, read the counter and print the summary.
\* SharedCounter.value takes and releases the lock of _value.
MonitorReport ==
    /\ cpc = "monitor_sleep"
    /\ vlock = NoHolder
    /\ overall_total' = counter
    /\ cpc' = "monitor"
    /\ UNCHANGED <<spawned, stop_idx, wpc, attempt>>
    /\ UNCHANGED <<startVars, counterVars, scanVars, fixedVars>>

\* Lines 297-301: KeyboardInterrupt inside the try that spawns and monitors.
Interrupt ==
    /\ cpc \in {"spawn", "monitor", "monitor_sleep"}
    /\ cpc' = "stopping"
    /\ stop_idx' = 0
    /\ UNCHANGED <<spawned, overall_total, wpc, attempt>>
    /\ UNCHANGED <<startVars, counterVars, scanVars, fixedVars>>

\* Lines 302-304: next process of the list; terminate() it when it is alive.
Terminate ==
    /\ cpc = "stopping"
    /\ stop_idx < spawned
    /\ IF is_alive(stop_idx)
       THEN cpc' = "joining" /\ stop_idx' = stop_idx
       ELSE cpc' = "stopping" /\ stop_idx' = stop_idx + 1
    /\ UNCHANGED <<spawned, overall_total, wpc, attempt>>
    /\ UNCHANGED <<startVars, counterVars, scanVars, fixedVars>>

\* A join() that returns without waiting for the process to exit.
Join_NoWait ==
    /\ cpc = "joining"
    /\ cpc' = "stopping"
    /\ stop_idx' = stop_idx + 1
    /\ UNCHANGED <<spawned, overall_total, wpc, attempt>>
    /\ UNCHANGED <<startVars, counterVars, scanVars, fixedVars>>

\* Line 305: join() returns once the terminated process has exited.
Join ==
    /\ cpc = "joining"
    /\ ~is_alive(stop_idx)
    /\ cpc' = "stopping"
    /\ stop_idx' = stop_idx + 1
    /\ UNCHANGED <<spawned, overall_total, wpc, attempt>>
    /\ UNCHANGED <<startVars, counterVars, scanVars, fixedVars>>

\* Lines 307-320: read the counter and print the final statistics.
FinalStatistics ==
    /\ cpc = "stopping"
    /\ stop_idx = spawned
    /\ vlock = NoHolder
    /\ overall_total' = counter
    /\ cpc' = "finished"
    /\ UNCHANGED <<spawned, stop_idx, wpc, attempt>>
    /\ UNCHANGED <<startVars, counterVars, scanVars, fixedVars>>

(*************************** signals ***************************************)

\* SIGTERM sent by terminate(): the process ends wherever it is; the locks
\* it holds stay held.
Sigterm(w) ==
    /\ cpc = "joining"
    /\ stop_idx = w
    /\ is_alive(w)
    /\ wpc' = [wpc EXCEPT ![w] = "killed"]
    /\ attempt' = [attempt EXCEPT ![w] = 0]
    /\ current_batch' = [current_batch EXCEPT ![w] = <<>>]
    /\ UNCHANGED <<coordVars, counterVars, fixedVars>>
    /\ UNCHANGED <<local_checked, fails, notified, wlog>>

\* The user's interrupt also reaches a worker of the same process group:
\* KeyboardInterrupt leaves the scan loop by `break` (lines 166-167) or ends
\* the initialisation; `with` and `finally` release the locks on the way.
Sigint(w) ==
    /\ cpc \in {"stopping", "joining"}
    /\ is_alive(w)
    /\ wpc' = [wpc EXCEPT ![w] = "interrupted"]
    /\ lock' = IF lock = w THEN NoHolder ELSE lock
    /\ vlock' = IF vlock = w THEN NoHolder ELSE vlock
    /\ tmp' = [tmp EXCEPT ![w] = 0]
    /\ attempt' = [attempt EXCEPT ![w] = 0]
    /\ current_batch' = [current_batch EXCEPT ![w] = <<>>]
    /\ UNCHANGED <<coordVars, counter, written, fixedVars>>
    /\ UNCHANGED <<local_checked, fails, notified, wlog>>

(*************************** worker_process ********************************)

\* Lines 58-68: an initialisation attempt succeeds.
InitOk(w) ==
    /\ wpc[w] = "init"
    /\ wpc' = [wpc EXCEPT ![w] = "loop"]
    /\ attempt' = [attempt EXCEPT ![w] = 0]
    /\ UNCHANGED <<coordVars, counterVars, scanVars, fixedVars>>

\* An initialisation loop that is left for the scan loop after the last
\* failed attempt.
InitFail_EntersLoop(w) ==
    /\ wpc[w] = "init"
    /\ IF attempt[w] < max_retries - 1
       THEN attempt' = [attempt EXCEPT ![w] = attempt[w] + 1] /\ wpc' = wpc
       ELSE attempt' = [attempt EXCEPT ![w] = 0]
            /\ wpc' = [wpc EXCEPT ![w] = "loop"]
    /\ wlog' = [wlog EXCEPT ![w] = IF attempt[w] < max_retries - 1
                                   THEN @ ELSE "init_failed"]
    /\ UNCHANGED <<coordVars, counterVars, fixedVars>>
    /\ UNCHANGED <<current_batch, local_checked, fails, notified>>

\* Lines 69-76: an initialisation attempt raises.
InitFail(w) ==
    /\ wpc[w] = "init"
    /\ IF attempt[w] < max_retries - 1
       THEN attempt' = [attempt EXCEPT ![w] = attempt[w] + 1] /\ wpc' = wpc
       ELSE attempt' = [attempt EXCEPT ![w] = 0]
            /\ wpc' = [wpc EXCEPT ![w] = "init_failed"]
    /\ wlog' = [wlog EXCEPT ![w] = IF attempt[w] < max_retries - 1
                                   THEN @ ELSE "init_failed"]
    /\ UNCHANGED <<coordVars, counterVars, fixedVars>>
    /\ UNCHANGED <<current_batch, local_checked, fails, notified>>

\* Lines 101-124, CPU path: fill the buffer up to BATCH_SIZE addresses and
\* take them as the current batch (the buffer is empty again).
Generate(w) ==
    /\ wpc[w] = "loop"
    /\ local_checked[w] < Cap * BatchSize
    /\ \E batch \in [1..BatchSize -> Addr] :
          current_batch' = [current_batch EXCEPT ![w] = batch]
    /\ wpc' = [wpc EXCEPT ![w] = "rpc"]
    /\ wlog' = [wlog EXCEPT ![w] = "none"]
    /\ UNCHANGED <<coordVars, attempt, counterVars, fixedVars>>
    /\ UNCHANGED <<local_checked, fails, notified>>

\* What check_wallets_batch and the scan of its results can come to for a
\* batch: the position of the match (0: none), its balance, and whether
\* every request of the batch failed (those of the first pass, the batch
\* request and every lookup of the except branch).
Outcomes(batch, ledger) ==
    {LET out == check_wallets_batch(batch, probe, response, failing, ledger)
         m == FirstMatch(batch, out.results)
     IN  [m |-> m,
          balance |-> IF m # 0 THEN out.results[m][2] ELSE 0,
          failed |-> /\ probe = "transient"
                     /\ response.kind = "raise"
                     /\ failing = 1..Len(batch)] :
        probe \in {"ok", "transient"},
        response \in Responses(batch, ledger),
        failing \in SUBSET (1..Len(batch))}

\* A scan that adds the batch to local_checked before it looks for a match.
CheckBatch_CountsMatch(w) ==
    /\ wpc[w] = "rpc"
    /\ \E o \in Outcomes(current_batch[w], chain) :
          /\ IF o.m # 0
             THEN /\ \E enabled \in BOOLEAN, post \in Post :
                       notified' = notified \cup
                        {[worker |-> w, address |-> current_batch[w][o.m],
                          balance |-> o.balance,
                          delivered |-> send_message(enabled, post).value,
                          logged |-> send_message(enabled, post).logged]}
                  /\ wpc' = [wpc EXCEPT ![w] = "matched"]
                  /\ local_checked' = [local_checked EXCEPT
                                         ![w] = @ + Len(current_batch[w])]
                  /\ current_batch' = [current_batch EXCEPT ![w] = <<>>]
             ELSE /\ notified' = notified
                  /\ wpc' = [wpc EXCEPT ![w] = "inc_lock"]
                  /\ local_checked' = [local_checked EXCEPT
                                         ![w] = @ + Len(current_batch[w])]
                  /\ current_batch' = current_batch
          /\ fails' = [fails EXCEPT ![w] = IF o.failed THEN Min(@ + 1, LongRun) ELSE 0]
    /\ UNCHANGED <<coordVars, attempt, counterVars, fixedVars, wlog>>

\* Lines 127-144: check_wallets_batch returns; scan the results; on the
\* first positive balance send the message and return, else add the batch
\* to local_checked.
CheckBatch(w) ==
    /\ wpc[w] = "rpc"
    /\ \E o \in Outcomes(current_batch[w], chain) :
          /\ IF o.m # 0
             THEN /\ \E enabled \in BOOLEAN, post \in Post :
                       notified' = notified \cup
                        {[worker |-> w, address |-> current_batch[w][o.m],
                          balance |-> o.balance,
                          delivered |-> send_message(enabled, post).value,
                          logged |-> send_message(enabled, post).logged]}
                  /\ wpc' = [wpc EXCEPT ![w] = "matched"]
                  /\ local_checked' = local_checked
                  /\ current_batch' = [current_batch EXCEPT ![w] = <<>>]
             ELSE /\ notified' = notified
                  /\ wpc' = [wpc EXCEPT ![w] = "inc_lock"]
                  /\ local_checked' = [local_checked EXCEPT
                                         ![w] = @ + Len(current_batch[w])]
                  /\ current_batch' = current_batch
          /\ fails' = [fails EXCEPT ![w] = IF o.failed THEN Min(@ + 1, LongRun) ELSE 0]
    /\ UNCHANGED <<coordVars, attempt, counterVars, fixedVars, wlog>>

(*************************** SharedCounter.increment ***********************)

\* An increment that enters without waiting for the lock to be free.
IncLock_NoMutex(w) ==
    /\ wpc[w] = "inc_lock"
    /\ lock' = w
    /\ wpc' = [wpc EXCEPT ![w] = "inc_get"]
    /\ UNCHANGED <<coordVars, attempt, counter, vlock, tmp, written>>
    /\ UNCHANGED <<scanVars, fixedVars>>

\* Line 30: `with self._lock`.
IncLock(w) ==
    /\ wpc[w] = "inc_lock"
    /\ lock = NoHolder
    /\ lock' = w
    /\ wpc' = [wpc EXCEPT ![w] = "inc_get"]
    /\ UNCHANGED <<coordVars, attempt, counter, vlock, tmp, written>>
    /\ UNCHANGED <<scanVars, fixedVars>>

\* Every access of _value.value first takes the lock of the Value.
ValueAcquire(w) ==
    /\ wpc[w] \in {"inc_get", "inc_set", "inc_ret"}
    /\ vlock = NoHolder
    /\ vlock' = w
    /\ wpc' = [wpc EXCEPT ![w] = IF @ = "inc_get" THEN "inc_get_h"
                                 ELSE IF @ = "inc_set" THEN "inc_set_h"
                                 ELSE "inc_ret_h"]
    /\ UNCHANGED <<coordVars, attempt, counter, lock, tmp, written>>
    /\ UNCHANGED <<scanVars, fixedVars>>

\* Line 31, first half: read _value.value.
IncGet(w) ==
    /\ wpc[w] = "inc_get_h"
    /\ tmp' = [tmp EXCEPT ![w] = counter]
    /\ vlock' = NoHolder
    /\ wpc' = [wpc EXCEPT ![w] = "inc_set"]
    /\ UNCHANGED <<coordVars, attempt, counter, lock, written>>
    /\ UNCHANGED <<scanVars, fixedVars>>

\* Line 31, second half: store the sum.
IncSet(w) ==
    /\ wpc[w] = "inc_set_h"
    /\ counter' = CInt(tmp[w], Len(current_batch[w]))
    /\ written' = [written EXCEPT ![w] = @ + Len(current_batch[w])]
    /\ vlock' = NoHolder
    /\ tmp' = [tmp EXCEPT ![w] = 0]
    /\ wpc' = [wpc EXCEPT ![w] = "inc_ret"]
    /\ UNCHANGED <<coordVars, attempt, lock>>
    /\ UNCHANGED <<scanVars, fixedVars>>

\* Line 32: read the value again, return it (total_checked of the worker,
\* used by the progress line only) and leave the `with` block.
IncReturn(w) ==
    /\ wpc[w] = "inc_ret_h"
    /\ vlock' = NoHolder
    /\ lock' = NoHolder
    /\ wpc' = [wpc EXCEPT ![w] = "stats"]
    /\ UNCHANGED <<coordVars, attempt, counter, tmp, written>>
    /\ UNCHANGED <<scanVars, fixedVars>>

\* An iteration whose batch list is one list shared by the workers.
Stats_SharedBatch(w) ==
    /\ wpc[w] = "stats"
    /\ wpc' = [wpc EXCEPT ![w] = "loop"]
    /\ current_batch' = [v \in Workers |-> <<>>]
    /\ UNCHANGED <<coordVars, attempt, counterVars, fixedVars>>
    /\ UNCHANGED <<local_checked, fails, notified, wlog>>

\* Lines 147-164: speed and progress line; back to the top of the loop,
\* where current_batch is assigned before it is read again.
Stats(w) ==
    /\ wpc[w] = "stats"
    /\ wpc' = [wpc EXCEPT ![w] = "loop"]
    /\ current_batch' = [current_batch EXCEPT ![w] = <<>>]
    /\ UNCHANGED <<coordVars, attempt, counterVars, fixedVars>>
    /\ UNCHANGED <<local_checked, fails, notified, wlog>>

\* A handler that leaves the scan loop instead of going on with it.
StatsError_Break(w) ==
    /\ wpc[w] = "stats"
    /\ wpc' = [wpc EXCEPT ![w] = "interrupted"]
    /\ current_batch' = [current_batch EXCEPT ![w] = <<>>]
    /\ fails' = [fails EXCEPT ![w] = 0]
    /\ UNCHANGED <<coordVars, attempt, counterVars, fixedVars>>
    /\ UNCHANGED <<local_checked, notified, wlog>>

\* Lines 168-171: the iteration raises there (division by a zero elapsed
\* time, a failing print): log, sleep 0.1 s, next iteration.
StatsError(w) ==
    /\ wpc[w] = "stats"
    /\ wpc' = [wpc EXCEPT ![w] = "loop"]
    /\ current_batch' = [current_batch EXCEPT ![w] = <<>>]
    /\ fails' = [fails EXCEPT ![w] = 0]
    /\ wlog' = [wlog EXCEPT ![w] = "error"]
    /\ UNCHANGED <<coordVars, attempt, counterVars, fixedVars>>
    /\ UNCHANGED <<local_checked, notified>>

Next ==
    \/ GethReady
    \/ GethUnavailable
    \/ InterruptWait
    \/ Spawn
    \/ MonitorTest
    \/ MonitorReport
    \/ Interrupt
    \/ Terminate
    \/ Join
    \/ FinalStatistics
    \/ \E w \in Workers : Sigterm(w)
    \/ \E w \in Workers : Sigint(w)
    \/ \E w \in Workers : InitOk(w)
    \/ \E w \in Workers : InitFail(w)
    \/ \E w \in Workers : Generate(w)
    \/ \E w \in Workers : CheckBatch(w)
    \/ \E w \in Workers : IncLock(w)
    \/ \E w \in Workers : ValueAcquire(w)
    \/ \E w \in Workers : IncGet(w)
    \/ \E w \in Workers : IncSet(w)
    \/ \E w \in Workers : IncReturn(w)
    \/ \E w \in Workers : Stats(w)
    \/ \E w \in Workers : StatsError(w)

Spec == Init /\ [][Next]_vars

\* The interrupt handler of start() keeps running until it blocks, and a
\* SIGTERM that was sent is delivered.
FairSpec ==
    /\ Spec
    /\ WF_vars(Terminate)
    /\ WF_vars(Join)
    /\ \A w \in Workers : WF_vars(Sigterm(w))

(***************************************************************************)
(* SpecBatch: check_wallet and check_wallets_batch called with any input   *)
(* against any ledger and any behaviour of the endpoint.                   *)
(***************************************************************************)
Strings == Addr \cup NotAddr
LookupOutcome == {"ok", "transient", "permanent"}
ValidOf(mnemonics) == SelectSeq(mnemonics, is_address)

InitBatch ==
    /\ worker_count = 1
    /\ chain \in [Addr -> Wei]
    /\ call = [op |-> "idle"]
    /\ Constructed

CallCheckWallet ==
    /\ call.op = "idle"
    /\ \E address \in Strings, outcomes \in [1..AttemptsBound -> LookupOutcome] :
          call' = [op |-> "check_wallet", address |-> address,
                   outcomes |-> outcomes,
                   out |-> check_wallet(address, outcomes, chain)]
    /\ UNCHANGED <<worker_count, chain, coordVars, counterVars, scanVars, wpc, attempt>>

CallCheckWalletsBatch ==
    /\ call.op = "idle"
    /\ \E mnemonics \in UNION {[1..n -> Strings] : n \in 1..MaxBatchLen},
          probe \in {"ok", "transient"} :
          \E response \in Responses(ValidOf(mnemonics), chain),
             failing \in SUBSET (1..Len(ValidOf(mnemonics))) :
             call' = [op |-> "check_wallets_batch", mnemonics |-> mnemonics,
                      probe |-> probe, response |-> response, failing |-> failing,
                      out |-> check_wallets_batch(mnemonics, probe, response,
                                                  failing, chain)]
    /\ UNCHANGED <<worker_count, chain, coordVars, counterVars, scanVars, wpc, attempt>>

CallGenerateRandomMnemonic ==
    /\ call.op = "idle"
    /\ \E key \in Keys :
          call' = [op |-> "generate_random_mnemonic", key |-> key,
                   out |-> generate_random_mnemonic(key)]
    /\ UNCHANGED <<worker_count, chain, coordVars, counterVars, scanVars, wpc, attempt>>

CallGenerateRandomMnemonicsGpu ==
    /\ call.op = "idle"
    /\ \E device \in Devices, batch_size \in 1..MaxGen, keys \in [1..MaxKeys -> Keys] :
          \E fault \in (IF device = "cuda" THEN BOOLEAN ELSE {FALSE}) :
             call' = [op |-> "generate_random_mnemonics_gpu", device |-> device,
                      batch_size |-> batch_size, keys |-> keys, fault |-> fault,
                      out |-> generate_random_mnemonics_gpu(device, batch_size,
                                                            keys, fault)]
    /\ UNCHANGED <<worker_count, chain, coordVars, counterVars, scanVars, wpc, attempt>>

\* The names bound at module level in ethereum_service.py by its imports
\* (lines 2-13) that _initialize_web3 refers to.
ModuleNames == {"Web3", "geth_poa_middleware", "GETH_ENDPOINT"}

\* EthereumService._initialize_web3 from attempt number i on (counted from
\* 0 as range does): outcomes[k] tells whether the k-th connection attempt
\* raises; delay is retry_delay, slept the sleeps made so far.
RECURSIVE InitializeFrom(_, _, _, _)
InitializeFrom(outcomes, i, delay, slept) ==
    IF i = web3_max_retries
    THEN [raised |-> "ConnectionError", client |-> 0,
          attempts |-> i, slept |-> slept]
    ELSE IF outcomes[i + 1] = "ok"
    THEN [raised |-> None, client |-> i + 1,
          attempts |-> i + 1, slept |-> slept]
    ELSE IF i < web3_max_retries - 1
    THEN IF "time" \notin ModuleNames
         THEN [raised |-> "NameError", client |-> 0,
               attempts |-> i + 1, slept |-> slept]
         ELSE InitializeFrom(outcomes, i + 1, delay * 2,
                             Append(slept, delay))
    ELSE InitializeFrom(outcomes, i + 1, delay, slept)

_initialize_web3(outcomes) == InitializeFrom(outcomes, 0, retry_delay, <<>>)

CallInitializeWeb3 ==
    /\ call.op = "idle"
    /\ \E outcomes \in [1..web3_max_retries -> {"ok", "raise"}] :
          call' = [op |-> "_initialize_web3", outcomes |-> outcomes,
                   out |-> _initialize_web3(outcomes)]
    /\ UNCHANGED <<worker_count, chain, coordVars, counterVars, scanVars, wpc, attempt>>

\* The hex-encoded balances converted: every short string, 1 ether (the
\* 10^18 smallest units), 1 ether and 1 unit, and 2^128 - 1.
HexStrings ==
    UNION {[1..n -> {HexChars[i] : i \in 1..Len(HexChars)}] : n \in 1..MaxHexLen}
      \cup {<<"d", "e", "0", "b", "6", "b", "3", "a", "7", "6", "4", "0", "0", "0", "0">>,
            <<"d", "e", "0", "b", "6", "b", "3", "a", "7", "6", "4", "0", "0", "0", "1">>,
            [k \in 1..32 |-> "f"]}

CallBalanceEth ==
    /\ call.op = "idle"
    /\ \E result \in HexStrings :
          call' = [op |-> "balance_eth", result |-> result,
                   out |-> balance_eth(result)]
    /\ UNCHANGED <<worker_count, chain, coordVars, counterVars, scanVars, wpc, attempt>>

NextBatch ==
    \/ CallInitializeWeb3
    \/ CallBalanceEth
    \/ CallCheckWallet
    \/ CallCheckWalletsBatch
    \/ CallGenerateRandomMnemonic
    \/ CallGenerateRandomMnemonicsGpu

SpecBatch == InitBatch /\ [][NextBatch]_vars

(***************************************************************************)
(* SpecCore: the core WalletManager and BlockchainManager.  A Python value *)
(* is a record of its type and its content (s of a str, n of an int), so   *)
(* that == between a str and an int is False as in Python; a dict is a     *)
(* function of its keys.                                                   *)
(***************************************************************************)
PyStr(s) == [type |-> "str", s |-> s, n |-> 0]
PyInt(n) == [type |-> "int", s |-> "", n |-> n]
PyEq(a, b) == a.type = b.type /\ a.s = b.s /\ a.n = b.n

\* BlockchainManager.supported_chains, in insertion order.
supported_chains ==
    <<[k |-> "ETH", v |-> 1], [k |-> "BSC", v |-> 56],
      [k |-> "POLYGON", v |-> 137], [k |-> "AVALANCHE", v |-> 43114]>>

ChainNames == {supported_chains[i].k : i \in 1..Len(supported_chains)}

\* What `for chain_id in supported_chains` yields: the keys of the dict.
IterSupportedChains ==
    [i \in 1..Len(supported_chains) |-> PyStr(supported_chains[i].k)]

\* The values of the dict, the numeric chain ids.
ChainIds == {PyInt(supported_chains[i].v) : i \in 1..Len(supported_chains)}

_get_major_tokens(chain_name) ==
    IF chain_name = "ETH" THEN {"USDT", "USDC", "WBTC"}
    ELSE IF chain_name = "BSC" THEN {"USDT", "USDC", "BTCB"}
    ELSE {}

EmptyDict == [s \in {} |-> 0]

\* The networks as a call finds them: the chains on which the addresses
\* hold the native coin, whether they hold the chain's major tokens, and
\* whether the endpoints raise.
Worlds == [funded : SUBSET ChainNames, tokens : BOOLEAN, raising : BOOLEAN]

\* BlockchainManager.get_wallet_balance: the dict it returns and the native
\* balance queries it issued, as <<chain, address>>.
get_wallet_balance(address, chain_id, web3_clients, world) ==
    LET found == {i \in 1..Len(supported_chains) :
                     PyEq(PyInt(supported_chains[i].v), chain_id)}
        chain_name == IF found = {} THEN None
                      ELSE supported_chains[CHOOSE i \in found :
                                               \A j \in found : i <= j].k
    IN  IF chain_name = None \/ chain_name \notin web3_clients
        THEN [result |-> EmptyDict, queries |-> <<>>]
        ELSE IF world.raising
        THEN [result |-> EmptyDict, queries |-> <<(<<chain_name, address>>)>>]
        ELSE LET native == IF chain_name \in world.funded THEN {chain_name} ELSE {}
                 held == IF world.tokens THEN _get_major_tokens(chain_name) ELSE {}
             IN  [result |-> [s \in native \cup held |->
                                 IF s \in held THEN 1 ELSE from_wei(MaxWei)],
                  queries |-> <<(<<chain_name, address>>)>>]

\* The tasks of _check_wallets in the order they are appended: for each
\* wallet, one per item of the iteration over supported_chains.
Tasks(wallets) ==
    LET n == Len(IterSupportedChains)
    IN  [t \in 1..(Len(wallets) * n) |->
            [address |-> wallets[((t - 1) \div n) + 1].address,
             chain_id |-> IterSupportedChains[((t - 1) % n) + 1]]]

RECURSIVE Flatten(_)
Flatten(ss) == IF ss = <<>> THEN <<>> ELSE Head(ss) \o Flatten(Tail(ss))

\* WalletManager._check_wallets: gather keeps the order of the tasks, and
\* get_wallet_balance raises nothing, so balances is the tasks' results.
_check_wallets(wallets, web3_clients, world) ==
    LET tasks == Tasks(wallets)
        done == [t \in 1..Len(tasks) |->
                    get_wallet_balance(tasks[t].address, tasks[t].chain_id,
                                       web3_clients, world)]
    IN  [balances |-> [t \in 1..Len(tasks) |-> done[t].result],
         queries |-> Flatten([t \in 1..Len(tasks) |-> done[t].queries])]

\* calculate_total_value with every price at `price`.
calculate_total_value(balance, price) ==
    SumOver([s \in DOMAIN balance |-> balance[s] * price], DOMAIN balance)

\* WalletManager._process_results: the wallets reported, each with the
\* balances it is reported with.
_process_results(wallets, balances, price, min_token_value_usd) ==
    LET pairs == [i \in 1..Min(Len(wallets), Len(balances)) |->
                     [wallet |-> wallets[i], balances |-> balances[i]]]
        valuable(pr) == /\ DOMAIN pr.balances # {}
                        /\ calculate_total_value(pr.balances, price)
                              >= min_token_value_usd
    IN  SelectSeq(pairs, valuable)

\* WalletManager.process_wallets for the wallets _generate_wallets made.
process_wallets(wallets, web3_clients, world, price, min_token_value_usd) ==
    IF wallets = <<>>
    THEN [balances |-> <<>>, queries |-> <<>>, reported |-> <<>>]
    ELSE LET checked == _check_wallets(wallets, web3_clients, world)
         IN  [balances |-> checked.balances, queries |-> checked.queries,
              reported |-> _process_results(wallets, checked.balances,
                                            price, min_token_value_usd)]

InitCore ==
    /\ worker_count = 1
    /\ chain = [a \in Addr |-> 0]
    /\ call = [op |-> "idle"]
    /\ Constructed

CallGetWalletBalance ==
    /\ call.op = "idle"
    /\ \E address \in Addr, chain_id \in ChainIds \cup {PyInt(5), PyStr("ETH")},
          web3_clients \in SUBSET ChainNames, world \in Worlds :
          call' = [op |-> "get_wallet_balance", address |-> address,
                   chain_id |-> chain_id, web3_clients |-> web3_clients,
                   world |-> world,
                   out |-> get_wallet_balance(address, chain_id, web3_clients,
                                              world)]
    /\ UNCHANGED <<worker_count, chain, coordVars, counterVars, scanVars, wpc, attempt>>

CallProcessWallets ==
    /\ call.op = "idle"
    /\ \E wallets \in UNION {[1..n -> [address : Addr]] : n \in 0..MaxWallets},
          web3_clients \in SUBSET ChainNames, world \in Worlds,
          price \in 0..1, min_token_value_usd \in 0..1 :
          call' = [op |-> "process_wallets", wallets |-> wallets,
                   web3_clients |-> web3_clients, world |-> world,
                   out |-> process_wallets(wallets, web3_clients, world, price,
                                           min_token_value_usd)]
    /\ UNCHANGED <<worker_count, chain, coordVars, counterVars, scanVars, wpc, attempt>>

NextCore ==
    \/ CallGetWalletBalance
    \/ CallProcessWallets

SpecCore == InitCore /\ [][NextCore]_vars

(***************************************************************************)
(* SpecBuffer: the candidate buffer of one worker_process (lines 81-171).  *)
(* The candidates are numbered in the order they are generated; call holds *)
(* the worker's device, its position, mnemonic_buffer and current_batch,   *)
(* the number of candidates generated so far and, as history, the          *)
(* candidates handed to check_wallets_batch, in order.                     *)
(***************************************************************************)
BufferUnchanged ==
    UNCHANGED <<worker_count, chain, coordVars, counterVars, scanVars, wpc, attempt>>

\* The n candidates generated after the first `generated` ones.
Fresh(generated, n) == [k \in 1..n |-> generated + k]

InitBuffer ==
    /\ worker_count = 1
    /\ chain = [a \in Addr |-> 0]
    /\ \E device \in Devices :
          call = [op |-> "worker", device |-> device, pc |-> "start",
                  mnemonic_buffer |-> <<>>, current_batch |-> <<>>,
                  generated |-> 0, handed |-> <<>>]
    /\ Constructed

\* Lines 81-99: on cuda a first batch of up to BATCH_SIZE candidates is
\* generated into `mnemonics`, which nothing reads; mnemonic_buffer = [].
FirstBatch ==
    /\ call.op = "worker" /\ call.pc = "start"
    /\ \E n \in 0..(IF call.device = "cuda" THEN BufBatch ELSE 0) :
          call' = [call EXCEPT !.pc = "top", !.generated = @ + n]
    /\ BufferUnchanged

\* Lines 104-115: refill.  generate_random_mnemonics_gpu returns between 0
\* and the number asked for; the CPU loop appends until BATCH_SIZE is there.
Refill ==
    /\ call.op = "worker" /\ call.pc = "top"
    /\ call.generated + 2 * BufBatch <= MaxSerial
    /\ \E n \in 0..(2 * BufBatch) :
          /\ n = IF Len(call.mnemonic_buffer) >= BufBatch THEN 0
                 ELSE IF call.device = "cuda" THEN n
                 ELSE BufBatch - Len(call.mnemonic_buffer)
          /\ call' = [call EXCEPT !.pc = "slice",
                                  !.mnemonic_buffer = @ \o Fresh(call.generated, n),
                                  !.generated = @ + n]
    /\ BufferUnchanged

\* A slice that leaves the batch in the buffer.
Slice_KeepsBatch ==
    /\ call.op = "worker" /\ call.pc = "slice"
    /\ LET buffer == call.mnemonic_buffer
           batch == SubSeq(buffer, 1, Min(BufBatch, Len(buffer)))
       IN  call' = [call EXCEPT !.pc = IF batch = <<>> THEN "top" ELSE "check",
                                !.current_batch = batch,
                                !.mnemonic_buffer = buffer]
    /\ BufferUnchanged

\* Lines 118-124: current_batch = mnemonic_buffer[:BATCH_SIZE], the buffer
\* keeps the rest; an empty batch goes back to the top of the loop.
Slice ==
    /\ call.op = "worker" /\ call.pc = "slice"
    /\ LET buffer == call.mnemonic_buffer
           batch == SubSeq(buffer, 1, Min(BufBatch, Len(buffer)))
       IN  call' = [call EXCEPT !.pc = IF batch = <<>> THEN "top" ELSE "check",
                                !.current_batch = batch,
                                !.mnemonic_buffer =
                                    SubSeq(buffer, Len(batch) + 1, Len(buffer))]
    /\ BufferUnchanged

\* Lines 127-158 and 168-171: the batch is handed to check_wallets_batch;
\* the iteration goes on to the prefetch, or it raises and the loop
\* continues, or a match is found and the worker returns.
Check ==
    /\ call.op = "worker" /\ call.pc = "check"
    /\ \E to \in {"prefetch", "top", "matched"} :
          call' = [call EXCEPT !.pc = to,
                               !.handed = @ \o call.current_batch]
    /\ BufferUnchanged

\* Lines 160-164: on cuda, a buffer below BATCH_SIZE is extended by what a
\* generation of BATCH_SIZE returns.
Prefetch ==
    /\ call.op = "worker" /\ call.pc = "prefetch"
    /\ call.generated + BufBatch <= MaxSerial
    /\ \E n \in 0..BufBatch :
          /\ (call.device # "cuda" \/ Len(call.mnemonic_buffer) >= BufBatch) => n = 0
          /\ call' = [call EXCEPT !.pc = "top",
                                  !.mnemonic_buffer = @ \o Fresh(call.generated, n),
                                  !.generated = @ + n]
    /\ BufferUnchanged

NextBuffer ==
    \/ FirstBatch
    \/ Refill
    \/ Slice
    \/ Check
    \/ Prefetch

SpecBuffer == InitBuffer /\ [][NextBuffer]_vars

(***************************************************************************)
(* SpecCounter: the SharedCounter late in a run.  Every worker is in its   *)
(* scan loop and start() in its monitoring loop; the counter holds         *)
(* call.base, the batches counted so far (none, or nearly as many as the   *)
(* C int can hold), and `written` records what is added from there on.     *)
(***************************************************************************)
CounterStarts == {0, IntMax - 1}

InitCounter ==
    /\ worker_count = NumWorkers
    /\ chain = [a \in Addr |-> 0]
    /\ \E base \in CounterStarts :
          /\ call = [op |-> "run", base |-> base, returned |-> <<>>]
          /\ counter = base
          /\ overall_total = base
    /\ cpc = "monitor_sleep"
    /\ spawned = NumWorkers
    /\ stop_idx = 0
    /\ lock = NoHolder
    /\ vlock = NoHolder
    /\ wpc = [w \in Workers |-> "loop"]
    /\ attempt = [w \in Workers |-> 0]
    /\ current_batch = [w \in Workers |-> <<>>]
    /\ local_checked = [w \in Workers |-> 0]
    /\ tmp = [w \in Workers |-> 0]
    /\ written = [w \in Workers |-> 0]
    /\ fails = [w \in Workers |-> 0]
    /\ notified = {}
    /\ wlog = [w \in Workers |-> "none"]
    /\ processes = [k \in 1..NumWorkers |-> k - 1]
    /\ node_ready = TRUE
    /\ start_notice = "delivered"

\* Lines 28-32: SharedCounter.increment(amount), called by a worker with the
\* length of its batch; the whole method runs under _lock.  call.returned
\* lists the values the calls returned (line 32), in the order the calls
\* took the lock.
increment(w, amount) ==
    /\ wpc[w] = "loop"
    /\ written[w] < MaxIncrements * BatchSize
    /\ counter' = CInt(counter, amount)
    /\ written' = [written EXCEPT ![w] = @ + amount]
    /\ call' = [call EXCEPT !.returned = Append(@, CInt(counter, amount))]
    /\ UNCHANGED <<coordVars, scanVars, worker_count, chain>>
    /\ UNCHANGED <<wpc, attempt, lock, vlock, tmp>>

\* Line 285: the monitoring loop reads SharedCounter.value.
value ==
    /\ cpc = "monitor_sleep"
    /\ overall_total' = counter
    /\ UNCHANGED <<cpc, spawned, stop_idx, startVars, wpc, attempt>>
    /\ UNCHANGED <<counterVars, scanVars, fixedVars>>

NextCounter ==
    \/ \E w \in Workers : increment(w, BatchSize)
    \/ value

SpecCounter == InitCounter /\ [][NextCounter]_vars



(***************************************************************************)
(* SpecPrice: BlockchainManager.get_token_price and its price_cache.  call *)
(* holds the symbol the calls of this run ask for, the clock, the cache    *)
(* (key -> price and expiry, as TTLCache keeps them) and, as history, the  *)
(* last call that fetched a price, and the last call made.                 *)
(***************************************************************************)
Symbols == ChainNames \cup {"USDT"}
NoEntry == [price |-> 0, at |-> -1]

\* `symbol in self.price_cache`: the key is there and has not expired.
InCache(cache, key, now) == key \in DOMAIN cache /\ now < cache[key].expires

\* Lines 129-130: the pair the price is fetched for.
TickerSymbol(symbol) ==
    IF symbol \in ChainNames
    THEN IF symbol \in {"ETH", "POLYGON"} THEN "ETH" ELSE "BNB"
    ELSE symbol

\* The cache with key -> price stored at `now`.
Store(cache, key, price, now) ==
    [k \in DOMAIN cache \cup {key} |->
        IF k = key THEN [price |-> price, expires |-> now + ttl] ELSE cache[k]]

\* get_token_price(symbol) at `now`; quote is what fetch_ticker does when it
\* is called: a price, or 0 for a request that raises.
get_token_price(cache, symbol, now, quote) ==
    IF InCache(cache, symbol, now)
    THEN [returned |-> cache[symbol].price, requested |-> FALSE,
          failed |-> FALSE, cache |-> cache]
    ELSE IF quote = 0
    THEN [returned |-> 0, requested |-> TRUE, failed |-> TRUE, cache |-> cache]
    ELSE [returned |-> quote, requested |-> TRUE, failed |-> FALSE,
          cache |-> Store(cache, TickerSymbol(symbol), quote, now)]

InitPrice ==
    /\ worker_count = 1
    /\ chain = [a \in Addr |-> 0]
    /\ \E symbol \in Symbols :
          call = [op |-> "prices", symbol |-> symbol, now |-> 0,
                  price_cache |-> <<>>, fetched |-> NoEntry,
                  last |-> [called |-> FALSE]]
    /\ Constructed

\* Time passes.
Tick ==
    /\ call.op = "prices"
    /\ call.now < MaxTicks * TickSeconds
    /\ call' = [call EXCEPT !.now = @ + TickSeconds, !.last = [called |-> FALSE]]
    /\ BufferUnchanged

CallGetTokenPrice ==
    /\ call.op = "prices"
    /\ \E quote \in 0..MaxPrice :
          LET out == get_token_price(call.price_cache, call.symbol, call.now,
                                     quote)
          IN  call' = [call EXCEPT
                         !.price_cache = out.cache,
                         !.fetched =
                             IF out.requested /\ ~out.failed
                             THEN [price |-> out.returned, at |-> call.now]
                             ELSE @,
                         !.last = [called |-> TRUE,
                                   prior |-> call.fetched,
                                   before |-> call.price_cache,
                                   out |-> out]]
    /\ BufferUnchanged

NextPrice ==
    \/ Tick
    \/ CallGetTokenPrice

SpecPrice == InitPrice /\ [][NextPrice]_vars


(***************************************************************************)
(* SpecRate: TelegramNotifier._rate_limit and send_message, called one     *)
(* after the other.  Time is counted in units of 1/UnitsPerSecond second.  *)
(* call holds the clock (the instant the last call returned), _last_send,  *)
(* and as history the instants of the last two posts.                      *)
(***************************************************************************)
\* _rate_limit called at `now`: the sleep it makes and the _last_send it
\* leaves.
_rate_limit(now, last_send) ==
    [slept |-> IF now - last_send < _min_interval * UnitsPerSecond
               THEN _min_interval * UnitsPerSecond - (now - last_send)
               ELSE 0,
     last_send |-> now]

\* time.time() is far from 0, the first _last_send.
InitRate ==
    /\ worker_count = 1
    /\ chain = [a \in Addr |-> 0]
    /\ call = [op |-> "notifier", clock |-> 2 * _min_interval * UnitsPerSecond,
               _last_send |-> 0, sent |-> -1, sent_before |-> -1]
    /\ Constructed

\* send_message arrives `gap` after the call before it returned; it posts
\* after the sleep of _rate_limit, and the post takes `took`.
CallNotifierSendMessage ==
    /\ call.op = "notifier"
    /\ \E gap \in 0..MaxGap, took \in 0..1 :
          LET now == call.clock + gap
              limited == _rate_limit(now, call._last_send)
          IN  /\ now <= MaxClock
              /\ call' = [call EXCEPT !.clock = now + limited.slept + took,
                                      !._last_send = limited.last_send,
                                      !.sent = now + limited.slept,
                                      !.sent_before = call.sent]
    /\ BufferUnchanged

NextRate == CallNotifierSendMessage

SpecRate == InitRate /\ [][NextRate]_vars


(***************************************************************************)
(* SpecSend: the asynchronous TelegramService.send_message                 *)
(* (services/telegram_service.py).  A message is the sequence of its       *)
(* characters, each written as its position, so that parts can be told     *)
(* apart.  responses[k] is what the k-th post does: "200", "other" (a      *)
(* response with another status) or "raise".                               *)
(***************************************************************************)
\* A split that keeps the full parts only.
Split_DropsTail(message) ==
    [k \in 1..(Len(message) \div max_length) |->
        SubSeq(message, (k - 1) * max_length + 1,
               Min(k * max_length, Len(message)))]

\* Lines 30-31: [message[i:i+max_length] for i in range(0, len, max_length)].
Split(message) ==
    [k \in 1..((Len(message) + max_length - 1) \div max_length) |->
        SubSeq(message, (k - 1) * max_length + 1,
               Min(k * max_length, Len(message)))]

\* Lines 33-52 from part k on: the parts posted and the value returned.
RECURSIVE PostFrom(_, _, _, _)
PostFrom(messages, responses, k, posted) ==
    IF k > Len(messages) THEN [posted |-> posted, value |-> TRUE, logged |-> FALSE]
    ELSE IF responses[k] = "200"
    THEN PostFrom(messages, responses, k + 1, Append(posted, messages[k]))
    ELSE [posted |-> Append(posted, messages[k]), value |-> FALSE, logged |-> TRUE]

async_send_message(token, chat_id, message, responses) ==
    IF ~token \/ ~chat_id
    THEN [posted |-> <<>>, value |-> FALSE, logged |-> TRUE]
    ELSE PostFrom(Split(message), responses, 1, <<>>)

\* The lengths of the messages sent: around each multiple of max_length.
MessageLengths ==
    {0, 1} \cup UNION {{n * max_length - 1, n * max_length, n * max_length + 1} :
                         n \in 1..MaxParts}

InitSend ==
    /\ worker_count = 1
    /\ chain = [a \in Addr |-> 0]
    /\ call = [op |-> "idle"]
    /\ Constructed

CallAsyncSendMessage ==
    /\ call.op = "idle"
    /\ \E token \in BOOLEAN, chat_id \in BOOLEAN, n \in MessageLengths,
          responses \in [1..(MaxParts + 1) -> {"200", "other", "raise"}] :
          call' = [op |-> "async_send_message", token |-> token,
                   chat_id |-> chat_id, length |-> n, responses |-> responses,
                   out |-> async_send_message(token, chat_id,
                                              [i \in 1..n |-> i], responses)]
    /\ BufferUnchanged

NextSend == CallAsyncSendMessage

SpecSend == InitSend /\ [][NextSend]_vars


(***************************************************************************)
(* SpecMain: WalletStealer.run of main.py.  call holds the position of     *)
(* run, whether TELEGRAM_BOT_TOKEN and TELEGRAM_CHAT_ID are set, what      *)
(* initialize returned, the number of process_wallets calls made, the log  *)
(* and the messages handed to telegram.send_message, and whether a         *)
(* process_wallets call raised an Exception.                               *)
(***************************************************************************)
\* Lines 49-64: the required variables that are missing.
_load_environment(token, chat_id) ==
    {v \in {"TELEGRAM_BOT_TOKEN", "TELEGRAM_CHAT_ID"} :
        (v = "TELEGRAM_BOT_TOKEN" /\ ~token) \/ (v = "TELEGRAM_CHAT_ID" /\ ~chat_id)}

\* Lines 23-47.  gpu: check_gpu_availability(); components: whether building
\* TelegramService, BlockchainManager and WalletManager raises; delivered:
\* what the first send_message returns, which is not looked at.
initialize(gpu, token, chat_id, components, delivered) ==
    LET warned == IF gpu THEN <<>> ELSE <<"gpu_warning">>
    IN  IF _load_environment(token, chat_id) # {} \/ components = "raise"
        THEN [value |-> FALSE, log |-> Append(warned, "initialization_failed"),
              sent |-> <<>>]
        ELSE [value |-> TRUE, log |-> warned,
              sent |-> <<[text |-> "initialized", ok |-> delivered]>>]

InitMain ==
    /\ worker_count = 1
    /\ chain = [a \in Addr |-> 0]
    /\ \E token \in BOOLEAN, chat_id \in BOOLEAN :
          call = [op |-> "main", pc |-> "start", token |-> token,
                  chat_id |-> chat_id, initialized |-> FALSE, rounds |-> 0,
                  log |-> <<>>, sent |-> <<>>, raised |-> FALSE]
    /\ Constructed

\* Lines 68-70.
RunInitialize ==
    /\ call.op = "main" /\ call.pc = "start"
    /\ \E gpu \in BOOLEAN, components \in {"ok", "raise"}, delivered \in BOOLEAN :
          LET out == initialize(gpu, call.token, call.chat_id, components,
                                delivered)
          IN  call' = [call EXCEPT
                         !.initialized = out.value,
                         !.sent = out.sent,
                         !.log = IF out.value THEN out.log
                                 ELSE Append(out.log, "exiting"),
                         !.pc = IF out.value THEN "loop" ELSE "returned"]
    /\ BufferUnchanged

\* A loop whose handler goes on with the next iteration.
RunProcessWallets_Continues ==
    /\ call.op = "main" /\ call.pc = "loop"
    /\ \E outcome \in {"return", "raise", "interrupt"}, delivered \in BOOLEAN :
          /\ outcome = "return" => call.rounds < MaxRounds
          /\ call' = [call EXCEPT
                        !.rounds = Min(@ + 1, MaxRounds),
                        !.raised = outcome = "raise",
                        !.log = IF outcome = "raise"
                                THEN Append(@, "main_loop_error")
                                ELSE IF outcome = "interrupt"
                                THEN Append(@, "shutting_down") ELSE @,
                        !.sent = IF outcome = "raise"
                                 THEN Append(@, [text |-> "error",
                                                 ok |-> delivered])
                                 ELSE @,
                        !.pc = IF outcome = "interrupt" THEN "returned"
                               ELSE "loop"]
    /\ BufferUnchanged

\* Lines 72-81: one iteration: process_wallets returns and the loop sleeps,
\* or it raises an Exception (logged, one message sent, run returns), or a
\* KeyboardInterrupt ends the loop.
RunProcessWallets ==
    /\ call.op = "main" /\ call.pc = "loop"
    /\ \E outcome \in {"return", "raise", "interrupt"}, delivered \in BOOLEAN :
          /\ outcome = "return" => call.rounds < MaxRounds
          /\ call' = [call EXCEPT
                        !.rounds = Min(@ + 1, MaxRounds),
                        !.raised = outcome = "raise",
                        !.log = IF outcome = "raise"
                                THEN Append(@, "main_loop_error")
                                ELSE IF outcome = "interrupt"
                                THEN Append(@, "shutting_down") ELSE @,
                        !.sent = IF outcome = "raise"
                                 THEN Append(@, [text |-> "error",
                                                 ok |-> delivered])
                                 ELSE @,
                        !.pc = IF outcome = "return" THEN "loop"
                               ELSE "returned"]
    /\ BufferUnchanged

NextMain ==
    \/ RunInitialize
    \/ RunProcessWallets

SpecMain == InitMain /\ [][NextMain]_vars


(***************************************************************************)
(* SpecStart: WalletManager.start_processing of src/wallet_manager.py.     *)
(* call holds the position of the parent, the list `processes`, the        *)
(* processes that were started, those still running, and those the parent  *)
(* terminated and joined.                                                  *)
(***************************************************************************)
InitStart ==
    /\ worker_count = 1
    /\ chain = [a \in Addr |-> 0]
    /\ call = [op |-> "start_processing", pc |-> "start", i |-> 0, j |-> 1,
               processes |-> <<>>, started |-> {}, running |-> {},
               terminated |-> {}, joined |-> {}, interrupted |-> FALSE]
    /\ Constructed

\* Lines 133-135: p = mp.Process(...); p.start().
StartProcess ==
    /\ call.op = "start_processing" /\ call.pc = "start"
    /\ call.i < NumStarted
    /\ call' = [call EXCEPT !.started = @ \cup {call.i},
                            !.running = @ \cup {call.i},
                            !.pc = "append"]
    /\ BufferUnchanged

\* Line 136: processes.append(p), and the loop's next iteration or its end.
AppendProcess ==
    /\ call.op = "start_processing" /\ call.pc = "append"
    /\ call' = [call EXCEPT !.processes = Append(@, call.i),
                            !.i = @ + 1,
                            !.pc = IF call.i + 1 < NumStarted THEN "start"
                                   ELSE "join"]
    /\ BufferUnchanged

\* Lines 106-125: a worker runs until a KeyboardInterrupt of its own.
WorkerFinished ==
    /\ call.op = "start_processing" /\ call.pc # "returned"
    /\ \E w \in call.running :
          call' = [call EXCEPT !.running = @ \ {w}]
    /\ BufferUnchanged

\* Lines 139-140 and 147-150: p.join() returns once the process has ended.
JoinProcess ==
    /\ call.op = "start_processing" /\ call.pc = "join"
    /\ call.processes[call.j] \notin call.running
    /\ call' = [call EXCEPT !.joined = @ \cup {call.processes[call.j]},
                            !.j = @ + 1,
                            !.pc = IF call.j = Len(call.processes)
                                   THEN "returned" ELSE "join"]
    /\ BufferUnchanged

\* Lines 142-150: KeyboardInterrupt inside the try: every process of the
\* list is terminated and joined, then the cleanup runs.
KeyboardInterrupt ==
    /\ call.op = "start_processing"
    /\ call.pc \in {"start", "append", "join"}
    /\ LET listed == {call.processes[k] : k \in 1..Len(call.processes)}
       IN  call' = [call EXCEPT !.interrupted = TRUE,
                                !.terminated = listed,
                                !.joined = @ \cup listed,
                                !.running = @ \ listed,
                                !.pc = "returned"]
    /\ BufferUnchanged

NextStart ==
    \/ StartProcess
    \/ AppendProcess
    \/ WorkerFinished
    \/ JoinProcess
    \/ KeyboardInterrupt

SpecStart == InitStart /\ [][NextStart]_vars


(***************************************************************************)
(* SpecWorker: WalletManager.process_worker of src/wallet_manager.py.      *)
(* call holds the position of the worker, the batches generated, the       *)
(* position in the current batch, `checked`, the number of mnemonics       *)
(* handed to check_wallet_batch and the number of notifications.           *)
(***************************************************************************)
\* What the derivation and the balance query of one mnemonic do: a zero
\* balance, a positive balance, a TransactionNotFound or ValueError, or an
\* exception of another class (a connection error, a validation error).
CheckOutcomes == {"zero", "positive", "value_error", "other_error"}

\* Lines 82-98: the result (a WalletInfo or None), or the exception that
\* leaves the method.
check_wallet_batch(outcome) ==
    CASE outcome = "positive"    -> [raised |-> FALSE, result |-> "WalletInfo"]
      [] outcome = "zero"        -> [raised |-> FALSE, result |-> "None"]
      [] outcome = "value_error" -> [raised |-> FALSE, result |-> "None"]
      [] OTHER                   -> [raised |-> TRUE, result |-> "None"]

InitWorker ==
    /\ worker_count = 1
    /\ chain = [a \in Addr |-> 0]
    /\ call = [op |-> "process_worker", pc |-> "generate", batches |-> 0,
               pos |-> 0, checked |-> 0, handed |-> 0, matches |-> 0,
               notified |-> 0, last |-> "none"]
    /\ Constructed

\* Line 108.
GenerateMnemonicsBatch ==
    /\ call.op = "process_worker" /\ call.pc = "generate"
    /\ call.batches < GpuBatches
    /\ call' = [call EXCEPT !.batches = @ + 1, !.pos = 0, !.pc = "check"]
    /\ BufferUnchanged

\* Lines 110-120: one iteration of the for loop.  An exception that leaves
\* check_wallet_batch is not a KeyboardInterrupt: it leaves the while loop
\* and the function.
CheckMnemonic ==
    /\ call.op = "process_worker" /\ call.pc = "check"
    /\ \E outcome \in CheckOutcomes :
          LET out == check_wallet_batch(outcome)
              more == call.pos + 1 < GpuBatchSize
          IN  call' = [call EXCEPT
                         !.handed = @ + 1,
                         !.last = outcome,
                         !.matches = IF outcome = "positive" THEN @ + 1 ELSE @,
                         !.pos = IF out.raised THEN @ ELSE @ + 1,
                         !.checked = IF out.raised THEN @ ELSE @ + 1,
                         !.notified = IF ~out.raised /\ out.result # "None"
                                      THEN @ + 1 ELSE @,
                         !.pc = IF out.raised THEN "raised"
                                ELSE IF more THEN "check" ELSE "generate"]
    /\ BufferUnchanged

\* Lines 122-125: KeyboardInterrupt ends the loop, the count is logged.
WorkerInterrupted ==
    /\ call.op = "process_worker" /\ call.pc \in {"generate", "check"}
    /\ call' = [call EXCEPT !.pc = "finished"]
    /\ BufferUnchanged

NextWorker ==
    \/ GenerateMnemonicsBatch
    \/ CheckMnemonic
    \/ WorkerInterrupted

SpecWorker == InitWorker /\ [][NextWorker]_vars


(***************************************************************************)
(* SpecWorkers: the worker count WalletChecker.__init__ takes from         *)
(* SystemService.get_optimal_worker_count.  call holds what torch and      *)
(* psutil answer and the outcome of the constructor's line 191.            *)
(***************************************************************************)
\* psutil.cpu_count returns None when the count cannot be determined.
NoCount == 0 - 1

\* Python's max of two numbers.
Max(a, b) == IF a > b THEN a ELSE b

\* Python's `a or b` on the two counts: None is falsy.
Or(a, b) == IF a = NoCount \/ a = 0 THEN b ELSE a

\* Lines 33-45.  cuda: "available", "unavailable", or "raises" when
\* is_available or get_device_properties raises; gpu_mem in bytes / 2^29.
get_optimal_worker_count(cuda, gpu_mem, physical, logical) ==
    IF cuda = "available"
    THEN [raised |-> FALSE,
          value |-> Max(Min((gpu_mem \div 2) * 2, 16), 4)]
    ELSE LET cpu_count == Or(physical, logical)
         IN  IF cpu_count = NoCount
             THEN [raised |-> TRUE, value |-> 0]
             ELSE [raised |-> FALSE, value |-> Max(cpu_count * 2, 4)]

\* wallet_checker.py line 191.
WorkerCount(cuda, gpu_mem, physical, logical) ==
    LET optimal == get_optimal_worker_count(cuda, gpu_mem, physical, logical)
    IN  IF optimal.raised THEN optimal
        ELSE [raised |-> FALSE, value |-> Min(16, optimal.value)]

InitWorkers ==
    /\ worker_count = 1
    /\ chain = [a \in Addr |-> 0]
    /\ \E cuda \in {"available", "unavailable", "raises"},
          gpu_mem \in 0..MaxGpuHalfGiB,
          physical \in {NoCount} \cup 1..MaxCpus,
          logical \in {NoCount} \cup 1..MaxCpus :
          /\ (physical # NoCount /\ logical # NoCount) => physical <= logical
          /\ cuda = "unavailable" => gpu_mem = 0
          /\ call = [op |-> "worker_count", cuda |-> cuda, gpu_mem |-> gpu_mem,
                     physical |-> physical, logical |-> logical,
                     constructed |-> FALSE, raised |-> FALSE, value |-> 0]
    /\ Constructed

CallWalletCheckerInit ==
    /\ call.op = "worker_count" /\ ~call.constructed
    /\ LET out == WorkerCount(call.cuda, call.gpu_mem, call.physical,
                              call.logical)
       IN  call' = [call EXCEPT !.constructed = TRUE,
                                !.raised = out.raised,
                                !.value = out.value]
    /\ BufferUnchanged

SpecWorkers == InitWorkers /\ [][CallWalletCheckerInit]_vars

(***************************************************************************)
(* Properties.                                                             *)
(***************************************************************************)

\* What belongs to one worker_process: its position and its locals
\* (lines 52-55, 99, 118-119, 144), with what it logged and what it added.
Private(w) == <<wpc[w], attempt[w], current_batch[w], local_checked[w], tmp[w],
                fails[w], wlog[w], written[w],
                {n \in notified : n.worker = w}>>

\* The positions between the start of a batch's check and the store that
\* counts the batch.
MidBatch == {"rpc", "inc_lock", "inc_get", "inc_get_h", "inc_set", "inc_set_h"}

\* The worker is not inside an iteration's count: what it added to
\* local_checked has been added to the counter as well.
Counted(w) == wpc[w] \in {"unstarted", "init", "init_failed", "loop", "rpc",
                          "inc_ret", "inc_ret_h", "stats", "matched"}

\* C1: under every interleaving of the workers' increments no increment is
\* lost: the counter is the sum of the amounts the workers have added, and a
\* worker that completed M increments of amount a has added M*a, so that K
\* such workers leave the counter at K*M*a.
C1_NoLostIncrement ==
    /\ counter = SumOver(written, Workers)
    /\ \A w \in Workers : Counted(w) => written[w] = local_checked[w]

\* Every spawned worker has completed MaxBatches increments of BatchSize and
\* the counter shows all of them.
C1_Witness ==
    /\ worker_count = NumWorkers
    /\ \A w \in Workers : wpc[w] = "loop" /\ local_checked[w] = MaxBatches * BatchSize
    /\ counter = NumWorkers * MaxBatches * BatchSize

\* C2 (as claimed): check_wallets_batch returns one result per input, in
\* input order, result i being (batch[i], balance) when batch[i] is an
\* address and (None, 0.0) when it is not.
C2_ResultsPairedWithInputs ==
    call.op = "check_wallets_batch" =>
        LET batch == call.mnemonics
            results == call.out.results
        IN  /\ Len(results) = Len(batch)
            /\ \A i \in 1..Len(batch) :
                  IF is_address(batch[i])
                  THEN results[i][1] = batch[i]
                  ELSE results[i] = <<None, 0>>

\* C3 (as claimed): a balance is never attributed to the wrong address: a
\* positive balance at position i of the results is the balance the ledger
\* holds for batch[i], and the address a worker would report for these
\* results is an address that holds the reported balance.
C3_NoMisattribution ==
    call.op = "check_wallets_batch" =>
        LET batch == call.mnemonics
            results == call.out.results
            m == FirstMatch(batch, results)
        IN  /\ \A i \in 1..Len(results) :
                  results[i][2] > 0 =>
                      /\ is_address(batch[i])
                      /\ results[i][2] = from_wei(chain[batch[i]])
            /\ m # 0 => /\ is_address(batch[m])
                        /\ chain[batch[m]] > 0
                        /\ results[m][2] = from_wei(chain[batch[m]])

\* C4 (as claimed): when the batch request fails at batch level (it raises,
\* or what it returns is not a list) every address of the batch is looked
\* up individually, and the result has one entry per input as on success.
C4_FallbackOnBatchFailure ==
    (call.op = "check_wallets_batch" /\ call.response.kind \in {"raise", "nonlist"}) =>
        /\ call.out.fallback = ValidOf(call.mnemonics)
        /\ Len(call.out.results) = Len(call.mnemonics)

\* C5 (as claimed): the result of a lookup that failed differs from the
\* result of a lookup that confirmed a balance of 0 for the same address,
\* in check_wallet and in every entry of check_wallets_batch whose lookups
\* all failed.
ZeroLedger == [a \in Addr |-> 0]

C5_FailureIsNotZero ==
    /\ (call.op = "check_wallet" /\ is_address(call.address)
            /\ call.outcomes[1] # "ok") =>
          call.out.result #
              check_wallet(call.address, [k \in 1..AttemptsBound |-> "ok"],
                           ZeroLedger).result
    /\ (call.op = "check_wallets_batch" /\ call.probe # "ok"
            /\ call.response.kind = "raise"
            /\ call.failing = 1..Len(ValidOf(call.mnemonics))) =>
          /\ Len(call.out.results) = Len(call.mnemonics)
          /\ \A i \in 1..Len(call.mnemonics) :
                is_address(call.mnemonics[i]) =>
                    call.out.results[i] #
                        check_wallets_batch(<<call.mnemonics[i]>>, "ok",
                            InOrder(<<call.mnemonics[i]>>, ZeroLedger), {},
                            ZeroLedger).results[1]

\* C6 (as claimed): with the stop-on-first-match policy exactly one match is
\* reported, for a funded address and with its balance, and once it is
\* reported the whole process stops: no further report is made and no
\* worker begins to check another batch.
C6_StopOnFirstMatch ==
    [][/\ notified' # notified =>
             /\ notified = {}
             /\ \A n \in notified' : /\ chain[n.address] > 0
                                     /\ n.balance = from_wei(chain[n.address])
       /\ notified # {} =>
             \A w \in Workers : wpc'[w] = "rpc" => wpc[w] = "rpc"]_vars

\* C7: after a user interrupt the handler of start() gets every worker
\* stopped; when the final statistics are printed no worker is alive, and
\* the total they show is the value of the counter, which no longer changes.
C7_FinalStatistics ==
    /\ [](cpc = "finished" =>
            /\ \A w \in Workers : ~is_alive(w)
            /\ overall_total = counter)
    /\ (cpc = "stopping") ~>
            (cpc = "stopping" /\ stop_idx = spawned
                /\ \A w \in Workers : ~is_alive(w))

\* The final statistics were printed after workers that had counted
\* batches were terminated.
C7_Witness ==
    /\ cpc = "finished"
    /\ worker_count = NumWorkers
    /\ \A w \in Workers : wpc[w] = "killed"
    /\ counter > 0

\* C8 (as claimed): a worker is stopped only at an iteration boundary: never
\* while its batch is being checked nor between the check and the update of
\* the counter.
C8_StoppedAtBoundary ==
    [][\A w \in Workers :
          (is_alive(w) /\ wpc'[w] \in {"killed", "interrupted"}) =>
              wpc[w] \notin MidBatch]_vars

\* C9 (as claimed): a worker does not make a 6th consecutive failing batch
\* attempt without having slept since the 1st.
C9_BackoffAfterFiveFailures ==
    \A w \in Workers : fails[w] < 6

\* C10 (as claimed): a lookup whose first attempt fails transiently is tried
\* again (at most 3 more times); a lookup that fails permanently, or whose
\* address is invalid, is not tried again.
C10_RetryPolicy ==
    call.op = "check_wallet" =>
        /\ call.out.attempts <= 1 + 3
        /\ (is_address(call.address) /\ call.outcomes[1] = "transient") =>
              call.out.attempts >= 2
        /\ (~is_address(call.address) \/ call.outcomes[1] = "permanent") =>
              call.out.attempts <= 1

\* C11: no error ends a worker silently: an exception raised in an iteration
\* of the scan loop is logged and the worker goes on with the next iteration;
\* a worker stops only on a match, after the logged failure of its last
\* initialisation attempt, or when the Coordinator is shutting it down.
C11_NoSilentDeath ==
    [][\A w \in Workers :
          /\ (wlog'[w] = "error" /\ wlog[w] # "error") =>
                (wpc[w] = "stats" /\ wpc'[w] = "loop")
          /\ (wpc[w] = "stats" /\ wpc'[w] \notin {"stats", "loop"}) =>
                cpc \in {"stopping", "joining"}
          /\ (is_alive(w) /\ ~is_alive(w)') =>
                \/ wpc'[w] = "matched"
                \/ wpc'[w] = "init_failed" /\ wlog'[w] = "init_failed"
                \/ wpc'[w] \in {"killed", "interrupted"}
                       /\ cpc \in {"stopping", "joining"}]_vars

\* A worker whose iteration raised has logged the error and is at the top of
\* the loop again while the Coordinator monitors.
C11_Witness ==
    \E w \in Workers :
        /\ wlog[w] = "error"
        /\ wpc[w] = "loop"
        /\ local_checked[w] > 0
        /\ cpc = "monitor_sleep"

\* C12 (as claimed): generate_random_mnemonics_gpu(word_list, n) returns
\* exactly n addresses on the accelerator path and on the CPU path: a key
\* that is rejected is replaced by a further attempt, and a call that returns
\* fewer than n addresses has made more than n attempts.
C12_ExactlyN ==
    (call.op = "generate_random_mnemonics_gpu" /\ call.out.returned) =>
        \/ Len(call.out.addresses) = call.batch_size
        \/ call.out.attempts > call.batch_size

\* C13 (as claimed): for a batch of valid addresses against an endpoint that
\* answers the batch request, check_wallets_batch issues exactly one wire
\* request, the batched one, and no individual balance request.
C13_OneWireRequest ==
    (/\ call.op = "check_wallets_batch"
     /\ \A i \in 1..Len(call.mnemonics) : is_address(call.mnemonics[i])
     /\ call.response = InOrder(call.mnemonics, chain)) =>
        /\ call.out.batch_requests = 1
        /\ call.out.single_requests = 0

\* C14 (as claimed): a worker goes Starting -> Running -> (Draining on a
\* shutdown signal) -> Stopped: it scans only in Running, it enters Running
\* only from Starting, a shutdown signal stops it only by way of Draining,
\* and once Stopped it does not scan, add to the counter or notify again.
C14_WorkerStateMachine ==
    [][\A w \in Workers :
          /\ (wpc'[w] # wpc[w] /\ wpc'[w] \in MidBatch) => Phase(w) = "Running"
          /\ (Phase(w)' = "Running" /\ Phase(w) # "Running") => Phase(w) = "Starting"
          /\ (wpc'[w] \in {"killed", "interrupted"} /\ wpc[w] # wpc'[w]) =>
                Phase(w) = "Draining"
          /\ Phase(w) = "Stopped" =>
                /\ wpc'[w] = wpc[w]
                /\ written'[w] = written[w]
                /\ local_checked'[w] = local_checked[w]
                /\ {n \in notified' : n.worker = w} = {n \in notified : n.worker = w}]_vars

\* C15: start() spawns worker_count processes, each once and each with its
\* own worker id in 0..worker_count-1, and only after the wait has seen the
\* node connected and not syncing: the monitoring loop runs with exactly
\* worker_count processes, and a process is started only from "not started".
C15_SpawnExactlyOnce ==
    /\ [](/\ Len(processes) = spawned
          /\ spawned <= worker_count
          /\ \A k \in 1..Len(processes) : processes[k] \in 0..(worker_count - 1)
          /\ \A j, k \in 1..Len(processes) : j # k => processes[j] # processes[k]
          /\ \A w \in Workers : (wpc[w] # "unstarted") <=> (w < spawned)
          /\ spawned > 0 => node_ready
          /\ cpc \in {"monitor", "monitor_sleep", "returned"} =>
                spawned = worker_count)
    /\ [][\A w \in Workers :
             (wpc'[w] = "init" /\ wpc[w] # "init") =>
                 (wpc[w] = "unstarted" /\ cpc = "spawn" /\ node_ready)]_vars

\* The spawn loop has run to its end with the largest worker_count and the
\* monitoring loop has begun.
C15_Witness ==
    /\ worker_count = NumWorkers
    /\ cpc = "monitor"
    /\ Len(processes) = NumWorkers
    /\ \A w \in Workers : wpc[w] = "init"

\* C16: the Coordinator never restarts a worker: once the spawn phase is
\* over no process becomes alive, the number of active workers is at most
\* worker_count, and the monitoring loop goes on while some worker is alive
\* and ends when none is.
C16_NoRestart ==
    /\ [](/\ active_workers <= worker_count
          /\ cpc = "returned" => \A w \in Workers : ~is_alive(w))
    /\ [][/\ cpc # "spawn" => \A w \in Workers : is_alive(w)' => is_alive(w)
          /\ \A w \in Workers : wpc[w] \in Stopped => wpc'[w] = wpc[w]
          /\ (cpc = "monitor" /\ cpc' = "returned") => active_workers = 0
          /\ (cpc = "monitor" /\ cpc' = "monitor_sleep") => active_workers > 0]_vars

\* The monitoring loop has ended after every worker of the largest pool had
\* stopped by itself, one of them on a match.
C16_Witness ==
    /\ cpc = "returned"
    /\ worker_count = NumWorkers
    /\ \A w \in Workers : wpc[w] \in {"matched", "init_failed"}
    /\ \E w \in Workers : wpc[w] = "matched"

\* C17 (as claimed): when the node is not seen connected and synced within
\* the wait, or the connection attempt raises, start() aborts: it spawns no
\* worker, sends no start notification, and does not end the way a
\* completed run ends (so that the process can end with a non-zero status).
C17_AbortsNonZero ==
    cpc = "aborted" =>
        /\ spawned = 0
        /\ \A w \in Workers : wpc[w] = "unstarted"
        /\ start_notice = "none"
        /\ start_exit # "return"

\* C18 (as claimed): a failure of the notifier is not fatal: send_message
\* never raises and returns False when it is disabled, on a response that is
\* not OK and on an exception; after a notification that failed the failure
\* is logged and the caller goes on with its work (start() with the spawn
\* loop, a worker with its scan loop).
C18_NotifierFailureNonFatal ==
    [][/\ \A enabled \in BOOLEAN, post \in Post :
             LET r == send_message(enabled, post)
             IN  /\ ~r.raised
                 /\ r.value => (enabled /\ post = "ok")
       /\ (start_notice = "none" /\ start_notice' = "failed") => cpc' = "spawn"
       /\ \A n \in notified' \ notified :
             ~n.delivered => (n.logged /\ is_alive(n.worker)')]_vars

\* C19 (as claimed): the SharedCounter never decreases and is never reset:
\* every value the reporting loop reads is at least the value it read
\* before, and the counter is the exact sum of the increments applied so
\* far, also when that sum is above 2^31 - 1.
C19_CounterMonotoneExact ==
    [][/\ counter' >= counter
       /\ overall_total' >= overall_total
       /\ counter' >= call.base
       /\ counter' - call.base = SumOver(written', Workers)]_vars

\* C20: candidate generation has no effect besides consuming entropy: a
\* call of generate_random_mnemonic or generate_random_mnemonics_gpu issues
\* no wire request and leaves the counter, the workers' batches and what
\* was handed to the notifier as they were.
C20_GenerationHasNoEffect ==
    [][call'.op \in {"generate_random_mnemonic", "generate_random_mnemonics_gpu"} =>
          /\ call'.out.requests = 0
          /\ UNCHANGED <<counterVars, scanVars, coordVars, chain>>]_vars

\* A call on the CPU path that had to replace a rejected key and returned a
\* full batch.
C20_Witness ==
    /\ call.op = "generate_random_mnemonics_gpu"
    /\ call.device = "cpu"
    /\ Len(call.out.addresses) = call.batch_size
    /\ call.out.attempts > call.batch_size
    /\ counter = 0
    /\ notified = {}

\* C21: the workers share no mutable state but the SharedCounter: a step in
\* which something of worker i changes (it generates, checks, counts, fails,
\* stops on a match or dies) leaves the batch, local_checked and position of
\* every other worker as they were.
C21_WorkersShareOnlyCounter ==
    [][\A i, j \in Workers :
          (i # j /\ Private(i)' # Private(i)) => Private(j)' = Private(j)]_vars

\* One worker has stopped on a match while the other one is in the middle
\* of counting a batch.
C21_Witness ==
    \E i, j \in Workers :
        /\ i # j
        /\ wpc[i] = "matched"
        /\ wpc[j] = "inc_set_h"
        /\ current_batch[j] # <<>>
        /\ local_checked[j] > 0

\* C22 (as claimed): the conversion of a hex-encoded balance in smallest
\* units to the human unit is exact for every value up to 2^128: nothing is
\* rounded away, and 0xde0b6b3a7640000 converts to exactly 1.
C22_ConversionExact ==
    call.op = "balance_eth" =>
        /\ ~call.out.inexact
        /\ call.result = <<"d", "e", "0", "b", "6", "b", "3", "a", "7", "6",
                           "4", "0", "0", "0", "0">> =>
              /\ call.out.exponent = 0
              /\ call.out.mantissa = [i \in 1..FloatBits |-> IF i = 1 THEN 1 ELSE 0]


Uncounted == {"inc_lock", "inc_get", "inc_get_h", "inc_set", "inc_set_h"}

\* What worker w has added to the counter, read from its locals.
CountedBy(w) ==
    IF wpc[w] \in Uncounted THEN local_checked[w] - Len(current_batch[w])
    ELSE IF wpc[w] \in {"interrupted", "killed"} THEN written[w]
    ELSE local_checked[w]

OwnBalances(address, web3_clients, world) ==
    {get_wallet_balance(address, id, web3_clients, world).result : id \in ChainIds}

\* C24 (as claimed): _check_wallets returns one result per input wallet, in
\* the wallets' order, and every wallet _process_results reports is reported
\* with balances of its own address.
C24_ResultsPairedWithWallets ==
    call.op = "process_wallets" =>
        /\ Len(call.out.balances) = Len(call.wallets)
        /\ \A i \in 1..Len(call.out.reported) :
              call.out.reported[i].balances \in
                  OwnBalances(call.out.reported[i].wallet.address,
                              call.web3_clients, call.world)

\* C25 (as claimed): for each wallet and each supported chain that has a
\* client, a native balance query for the wallet's address is issued on
\* that chain.
C25_EveryWalletEveryChain ==
    call.op = "process_wallets" =>
        \A i \in 1..Len(call.wallets), c \in call.web3_clients :
            \E q \in 1..Len(call.out.queries) :
                call.out.queries[q] = <<c, call.wallets[i].address>>

\* The attempts of outcomes that raise before the first that succeeds.
FailedFirst(outcomes) ==
    Cardinality({k \in 1..Len(outcomes) :
                    \A j \in 1..k : outcomes[j] = "raise"})

\* C26 (as claimed): _initialize_web3 makes at most 3 attempts, sleeps 5 s
\* after the first failed attempt and 10 s after the second, returns the
\* client of the first attempt that succeeds, and raises ConnectionError
\* exactly when all 3 attempts failed, and nothing else.
C26_InitializeWeb3 ==
    call.op = "_initialize_web3" =>
        LET failed == FailedFirst(call.outcomes) IN
        /\ call.out.attempts <= web3_max_retries
        /\ call.out.slept = SubSeq(<<retry_delay, 2 * retry_delay>>, 1,
                                   Min(failed, web3_max_retries - 1))
        /\ call.out.raised \in {None, "ConnectionError"}
        /\ call.out.raised = "ConnectionError" <=> failed = web3_max_retries
        /\ call.out.raised = None => call.out.client = failed + 1

\* C27: a worker makes at most max_retries initialisation attempts; it is
\* in the scan loop only after an attempt succeeded (the worker whose last
\* attempt failed has printed its failure and stopped), and the worker that
\* failed all its attempts has generated and checked nothing, added nothing
\* to the counter and sent no notification, and does nothing afterwards.
C27_InitAttemptsBounded ==
    [][\A w \in Workers :
          /\ attempt'[w] + 1 <= max_retries
          /\ wlog'[w] = "init_failed" <=> wpc'[w] = "init_failed"
          /\ (wpc'[w] \notin {"unstarted", "init", "init_failed",
                              "interrupted", "killed"}
                 /\ wpc[w] \in {"unstarted", "init"}) =>
                (wpc[w] = "init" /\ wpc'[w] = "loop")
          /\ wpc'[w] = "init_failed" =>
                /\ current_batch'[w] = <<>>
                /\ local_checked'[w] = 0
                /\ written'[w] = 0
                /\ \A n \in notified' : n.worker # w
          /\ wpc[w] = "init_failed" =>
                Private(w)' = Private(w)]_vars

\* One worker has failed all its attempts while the other one has counted
\* a batch.
C27_Witness ==
    \E i, j \in Workers :
        /\ wpc[i] = "init_failed" /\ wlog[i] = "init_failed"
        /\ local_checked[j] > 0 /\ counter > 0

\* s is strictly increasing: the candidates of s are in the order they were
\* generated and none occurs twice.
Increasing(s) == \A i, j \in 1..Len(s) : i < j => s[i] < s[j]

\* C28: the buffer is always shorter than 3 * BATCH_SIZE; a batch handed to
\* the checker has between 1 and BATCH_SIZE candidates, exactly BATCH_SIZE
\* on the CPU path; the candidates are handed over in the order they were
\* generated, each at most once, and those still waiting come after them.
C28_BufferBounded ==
    call.op = "worker" =>
        /\ Len(call.mnemonic_buffer) < 3 * BufBatch
        /\ call.pc = "check" =>
              /\ Len(call.current_batch) \in 1..BufBatch
              /\ call.device = "cpu" => Len(call.current_batch) = BufBatch
        /\ Increasing(call.handed \o
                      (IF call.pc = "check" THEN call.current_batch ELSE <<>>)
                      \o call.mnemonic_buffer)

\* On cuda the buffer holds 3 * BATCH_SIZE - 1 candidates after a refill,
\* two batches having been handed to the checker before.
C28_Witness ==
    /\ call.op = "worker" /\ call.device = "cuda" /\ call.pc = "slice"
    /\ Len(call.mnemonic_buffer) = 3 * BufBatch - 1
    /\ Len(call.handed) = 2 * BufBatch

\* C29 (as claimed): the value an increment returns is the counter's value
\* right after its own addition, and with positive amounts the values
\* returned increase in the order in which the calls took the lock, so no
\* two calls return the same value.
C29_ReturnsIncrease ==
    call.op = "run" =>
        /\ call.returned # <<>> => call.returned[Len(call.returned)] = counter
        /\ Increasing(call.returned)

\* C30 (as claimed): shutdown always completes.  The final statistics are
\* printed after the read of the counter, which waits for the lock that
\* guards the value; so in every interleaving, when the last worker has been
\* terminated and joined, that lock is free, and it is never left held by a
\* worker that has stopped.
C30_ShutdownCompletes ==
    /\ \A w \in Workers : vlock = w => is_alive(w)
    /\ (cpc = "stopping" /\ stop_idx = spawned) => vlock = NoHolder

\* C31 (as claimed): for every symbol, a call within ttl seconds of the
\* last call with that symbol that fetched a price returns that price and
\* makes no request; any other call makes a request; a failed request
\* returns 0.0 and leaves the cache as it was.
C31_PriceCached ==
    (call.op = "prices" /\ call.last.called) =>
        LET prior == call.last.prior
            out == call.last.out
            fresh == prior # NoEntry /\ call.now < prior.at + ttl
        IN  /\ fresh => (out.returned = prior.price /\ ~out.requested)
            /\ ~fresh => out.requested
            /\ out.failed => (out.returned = 0 /\ out.cache = call.last.before)

\* C32 (as claimed): two consecutive messages are posted at least
\* _min_interval apart, whenever the calls arrive.
C32_RateLimited ==
    (call.op = "notifier" /\ call.sent_before >= 0) =>
        call.sent - call.sent_before >= _min_interval * UnitsPerSecond

\* C33: the parts posted have at most max_length characters, they are posted
\* in order and all parts together are the message; posting stops at the
\* first part that is not answered with 200 and the call returns False;
\* it returns True only when every part was accepted; with no token or no
\* chat id nothing is posted and it returns False.
C33_SplitInOrder ==
    call.op = "async_send_message" =>
        LET message == [i \in 1..call.length |-> i]
            posted == call.out.posted
            whole == Flatten(posted)
            accepted == {k \in 1..Len(posted) : call.responses[k] = "200"}
        IN  /\ \A k \in 1..Len(posted) : Len(posted[k]) \in 1..max_length
            /\ whole = SubSeq(message, 1, Len(whole))
            /\ \A k \in 1..Len(posted) : k - 1 \in accepted \cup {0}
            /\ call.out.value <=>
                  (call.token /\ call.chat_id /\ whole = message
                     /\ accepted = 1..Len(posted))
            /\ (call.token /\ call.chat_id /\ whole # message) =>
                  (posted # <<>> /\ Len(posted) \notin accepted)
            /\ (~call.token \/ ~call.chat_id) =>
                  (posted = <<>> /\ ~call.out.value)

\* A message of three parts whose second part is refused: two parts were
\* posted and the call returned False.
C33_Witness ==
    /\ call.op = "async_send_message"
    /\ call.length = MaxParts * max_length + 1
    /\ call.responses[1] = "200" /\ call.responses[2] = "other"
    /\ Len(call.out.posted) = 2 /\ ~call.out.value

\* C34: process_wallets is called only after initialize returned True, and
\* a missing TELEGRAM_BOT_TOKEN or TELEGRAM_CHAT_ID makes initialize return
\* False and run return; when process_wallets raises, run has logged the
\* error, sent exactly one error message and returned, and no process_wallets
\* call follows.
C34_RunGuarded ==
    [][call.op = "main" =>
          /\ call'.rounds > 0 => call'.initialized
          /\ (call'.pc # "start" /\ (~call'.token \/ ~call'.chat_id)) =>
                (~call'.initialized /\ call'.pc = "returned" /\ call'.rounds = 0)
          /\ call'.raised =>
                /\ call'.pc = "returned"
                /\ call'.log[Len(call'.log)] = "main_loop_error"
                /\ Cardinality({k \in 1..Len(call'.sent) :
                                   call'.sent[k].text = "error"}) = 1
          /\ call.pc = "returned" => call' = call
          /\ call.raised => call' = call]_vars

\* The third process_wallets call raised: one error message, run returned.
C34_Witness ==
    /\ call.op = "main" /\ call.raised /\ call.pc = "returned"
    /\ call.rounds = 3 /\ Len(call.sent) = 2 /\ call.sent[2].text = "error"

\* C35 (as claimed): when start_processing returns after a user interrupt,
\* every process that was started has been terminated and joined, and none
\* is still running.
C35_NoWorkerLeftBehind ==
    (call.op = "start_processing" /\ call.pc = "returned" /\ call.interrupted) =>
        /\ call.started \subseteq call.terminated
        /\ call.started \subseteq call.joined
        /\ call.running = {}

\* C36 (as claimed): checked counts every mnemonic handed to the check,
\* whatever its outcome, every match is notified, and a failed check of any
\* kind neither ends the worker nor skips the rest of the batch: the worker
\* stops only when it is interrupted.
C36_WorkerContinues ==
    call.op = "process_worker" =>
        /\ call.checked = call.handed
        /\ call.notified = call.matches
        /\ call.pc # "raised"
        /\ call.last \in {"value_error", "other_error"} =>
              call.pc \in {"check", "generate", "finished"}

\* C37 (as claimed): the constructor always ends with a worker count between
\* 4 and 16, whatever the GPU memory size and the CPU counts, also when a
\* CPU count is unknown or the GPU query raises.
C37_WorkerCountInRange ==
    (call.op = "worker_count" /\ call.constructed) =>
        /\ ~call.raised
        /\ 4 <= call.value /\ call.value <= 16
====
